---------------------------- MODULE Spec2Model ----------------------------
(***************************************************************************)
(* Address enrichment core of boondock-marketing: the geocode result       *)
(* model, the persistent reverse-geocode cache (fire_station_tools/        *)
(* geocode.py) and the row-enrichment driver (address_cleanup.py with      *)
(* firefighter_finder/address_utils.py).                                   *)
(*                                                                         *)
(* Text is modelled as sequences of one-character strings, so that         *)
(* formatting, parsing, splitting and prefix tests are computed the way    *)
(* the code computes them.  With(v, F) binds a computed value to a name.   *)
(***************************************************************************)
EXTENDS Integers, Sequences, FiniteSets, TLC

(***************************************************************************)
(* Text                                                                    *)
(***************************************************************************)

\* The characters of the model, in code-point order (str comparison and
\* json.dumps(sort_keys=True) order keys by code point).
Alphabet ==
    << " ", "#", ",", "-", ".", "/",
       "0", "1", "2", "3", "4", "5", "6", "7", "8", "9", ":",
       "A", "B", "C", "D", "E", "F", "G", "H", "I", "J", "K", "L", "M",
       "N", "O", "P", "Q", "R", "S", "T", "U", "V", "W", "X", "Y", "Z",
       "a", "b", "c", "d", "e", "f", "g", "h", "i", "j", "k", "l", "m",
       "n", "o", "p", "q", "r", "s", "t", "u", "v", "w", "x", "y", "z" >>

Ord(c) == CHOOSE i \in 1..Len(Alphabet) : Alphabet[i] = c

DigitChars == <<"0", "1", "2", "3", "4", "5", "6", "7", "8", "9">>

IsDigit(c) == c \in {DigitChars[i] : i \in 1..10}

DigitVal(c) == (CHOOSE i \in 1..10 : DigitChars[i] = c) - 1

IsUpper(c) == Ord(c) >= Ord("A") /\ Ord(c) <= Ord("Z")

IsLower(c) == Ord(c) >= Ord("a") /\ Ord(c) <= Ord("z")

IsAlpha(c) == IsUpper(c) \/ IsLower(c)

\* str.isspace / regex \s, restricted to the blank of the alphabet
IsSpace(c) == c = " "

\* regex \w
IsWord(c) == IsAlpha(c) \/ IsDigit(c)

\* str.lower() of one character
LowerChar(c) == IF IsUpper(c) THEN Alphabet[Ord(c) + (Ord("a") - Ord("A"))] ELSE c

Lower(s) == [i \in 1..Len(s) |-> LowerChar(s[i])]

\* F applied to the value v
With(v, F(_)) == F(v)

MinOf(S) == CHOOSE i \in S : \A j \in S : i <= j

MaxOf(S) == CHOOSE i \in S : \A j \in S : i >= j

\* s[a:b] with 1-based inclusive bounds; empty when a > b
Slice(s, a, b) == IF a > b THEN <<>> ELSE SubSeq(s, a, b)

StartsWith(s, p) == Len(s) >= Len(p) /\ SubSeq(s, 1, Len(p)) = p

\* the positions at which p occurs in s
Occurrences(s, p) ==
    {i \in 1..(Len(s) - Len(p) + 1) : SubSeq(s, i, i + Len(p) - 1) = p}

\* index of the first occurrence of p in s, 0 if none
Find(s, p) ==
    With(Occurrences(s, p), LAMBDA hits : IF hits = {} THEN 0 ELSE MinOf(hits))

\* p in s
Contains(s, p) == Len(p) = 0 \/ Occurrences(s, p) # {}

\* str.strip(): leading and trailing whitespace removed
Strip(s) ==
    With({i \in 1..Len(s) : ~IsSpace(s[i])},
         LAMBDA keep : IF keep = {} THEN <<>> ELSE Slice(s, MinOf(keep), MaxOf(keep)))

\* str.rstrip(chars): trailing characters of the set cs removed
RStripChars(s, cs) ==
    With({i \in 1..Len(s) : s[i] \notin cs},
         LAMBDA keep : IF keep = {} THEN <<>> ELSE Slice(s, 1, MaxOf(keep)))

\* sep.join(parts)
RECURSIVE Join(_, _)
Join(parts, sep) ==
    IF Len(parts) = 0 THEN <<>>
    ELSE IF Len(parts) = 1 THEN parts[1]
    ELSE parts[1] \o sep \o Join(Tail(parts), sep)

\* [p for p in parts if p]: the truthy (non-empty, non-None) parts, in order
RECURSIVE Truthy(_)
Truthy(parts) ==
    IF Len(parts) = 0 THEN <<>>
    ELSE IF parts[1].some /\ Len(parts[1].v) > 0
         THEN <<parts[1].v>> \o Truthy(Tail(parts))
         ELSE Truthy(Tail(parts))

\* str < str by code point
RECURSIVE LexLess(_, _)
LexLess(a, b) ==
    IF Len(b) = 0 THEN FALSE
    ELSE IF Len(a) = 0 THEN TRUE
    ELSE IF a[1] = b[1] THEN LexLess(Tail(a), Tail(b))
    ELSE Ord(a[1]) < Ord(b[1])

(***************************************************************************)
(* Optional values: Python None against a present value                    *)
(***************************************************************************)

None == [some |-> FALSE, v |-> <<>>]

Some(x) == [some |-> TRUE, v |-> x]

\* Python's `a or b` on optional text
OrElse(a, b) == IF a.some /\ Len(a.v) > 0 THEN a ELSE b

(***************************************************************************)
(* Floats: a finite decimal m / 10^k with k minimal, which is what a       *)
(* Python float of at most 15 significant digits prints and parses as.     *)
(***************************************************************************)

RECURSIVE Pow10(_)
Pow10(k) == IF k = 0 THEN 1 ELSE 10 * Pow10(k - 1)

RECURSIVE Normalize(_, _)
Normalize(m, k) ==
    IF k > 0 /\ m % 10 = 0 THEN Normalize(m \div 10, k - 1)
    ELSE [m |-> m, k |-> k]

Abs(n) == IF n < 0 THEN -n ELSE n

\* str(int) for n >= 0
RECURSIVE NatStr(_)
NatStr(n) == IF n < 10 THEN <<DigitChars[n + 1]>>
             ELSE NatStr(n \div 10) \o <<DigitChars[(n % 10) + 1]>>

\* n as exactly w digits, zero padded on the left
RECURSIVE PadStr(_, _)
PadStr(n, w) == IF w = 0 THEN <<>>
                ELSE PadStr(n \div 10, w - 1) \o <<DigitChars[(n % 10) + 1]>>

\* repr(float) / f"{x}" of a float: always with a fractional part
FloatRepr(f) ==
    (IF f.m < 0 THEN <<"-">> ELSE <<>>)
    \o (IF f.k = 0 THEN NatStr(Abs(f.m)) \o <<".", "0">>
        ELSE NatStr(Abs(f.m) \div Pow10(f.k)) \o <<".">>
             \o PadStr(Abs(f.m) % Pow10(f.k), f.k))

RECURSIVE DigitsVal(_)
DigitsVal(s) == IF Len(s) = 0 THEN 0
                ELSE 10 * DigitsVal(SubSeq(s, 1, Len(s) - 1)) + DigitVal(s[Len(s)])

AllDigits(s) == \A i \in 1..Len(s) : IsDigit(s[i])

NotAFloat == [ok |-> FALSE, f |-> [m |-> 0, k |-> 0]]

\* the digits before (ip) and after (fp) the point, with the sign
ParseDigits(neg, ip, fp) ==
    IF AllDigits(ip) /\ AllDigits(fp) /\ Len(ip) + Len(fp) > 0
    THEN [ok |-> TRUE,
          f |-> Normalize((IF neg THEN -1 ELSE 1)
                          * (DigitsVal(ip) * Pow10(Len(fp)) + DigitsVal(fp)), Len(fp))]
    ELSE NotAFloat

\* the text after the sign, split at its first point
ParseUnsigned(neg, body) ==
    With(Find(body, <<".">>),
         LAMBDA dot : IF dot = 0 THEN ParseDigits(neg, body, <<>>)
                      ELSE ParseDigits(neg, Slice(body, 1, dot - 1),
                                       Slice(body, dot + 1, Len(body))))

\* float(str): surrounding blanks, an optional sign, digits with at most one
\* point and at least one digit; anything else is a ValueError
ParseFloat(s) ==
    With(Strip(s),
         LAMBDA t : IF Len(t) > 0 /\ t[1] \in {"+", "-"}
                    THEN ParseUnsigned(t[1] = "-", Tail(t))
                    ELSE ParseUnsigned(FALSE, t))

(***************************************************************************)
(* GeocodeErrorCode and GeocodeResult (fire_station_tools/geocode.py)      *)
(***************************************************************************)

\* Optional short text that is never parsed (messages, JSON string values)
NoText == [some |-> FALSE, v |-> ""]

Text(t) == [some |-> TRUE, v |-> t]

\* enum member -> its string value; "None" is the absent error code
GeocodeErrorCode ==
    [ EMPTY_QUERY         |-> "empty-query",
      MISSING_LAT_LON     |-> "missing-lat-lon",
      NO_RESULTS          |-> "no-results",
      INCOMPLETE_ADDRESS  |-> "incomplete-address",
      TIMEOUT             |-> "timeout",
      SERVICE_UNAVAILABLE |-> "service-unavailable",
      SERVICE_ERROR       |-> "service-error",
      UNEXPECTED_ERROR    |-> "unexpected-error" ]

ErrorMembers == DOMAIN GeocodeErrorCode

\* GeocodeErrorCode(text): the member with that value, ValueError when none
CodeFromValue(t) ==
    IF \E c \in ErrorMembers : GeocodeErrorCode[c] = t
    THEN [ok |-> TRUE, code |-> CHOOSE c \in ErrorMembers : GeocodeErrorCode[c] = t]
    ELSE [ok |-> FALSE, code |-> "None"]

GeocodeResult(value, error_code, error_message) ==
    [value |-> value, error_code |-> error_code, error_message |-> error_message]

\* GeocodeResult.ok
Ok(r) == r.error_code = "None"

(***************************************************************************)
(* The provider boundary: what one call of the geocode callable does.      *)
(* t = "location": an object with a truthy raw mapping; addr holds the     *)
(*     fields of raw["address"] (all absent when raw has no address);      *)
(*     nonstr says that house_number is a truthy value that is no string;  *)
(*     coords says that the object has latitude and longitude attributes.  *)
(* t = "falsy": None.  t = "noraw": an object whose raw is None or empty.  *)
(* t = "raise": the call raises an exception of class exc.                 *)
(***************************************************************************)

NoAddr ==
    [house_number |-> None, road |-> None, city |-> None, town |-> None,
     village |-> None, hamlet |-> None, state |-> None, postcode |-> None]

Location(addr) ==
    [t |-> "location", addr |-> addr, nonstr |-> FALSE, coords |-> TRUE, exc |-> "none"]

BadTypeLocation ==
    [t |-> "location", addr |-> NoAddr, nonstr |-> TRUE, coords |-> TRUE, exc |-> "none"]

NoCoordsLocation(addr) ==
    [t |-> "location", addr |-> addr, nonstr |-> FALSE, coords |-> FALSE, exc |-> "none"]

Falsy == [t |-> "falsy", addr |-> NoAddr, nonstr |-> FALSE, coords |-> FALSE, exc |-> "none"]

NoRaw == [t |-> "noraw", addr |-> NoAddr, nonstr |-> FALSE, coords |-> TRUE, exc |-> "none"]

Raises(exc) ==
    [t |-> "raise", addr |-> NoAddr, nonstr |-> FALSE, coords |-> FALSE, exc |-> exc]

\* no provider call was made
NotCalled == [t |-> "notcalled", addr |-> NoAddr, nonstr |-> FALSE, coords |-> FALSE, exc |-> "none"]

\* Direct base class of each exception class (geopy.exc and builtins)
BaseOf ==
    [ GeocoderTimedOut      |-> "GeocoderServiceError",
      GeocoderUnavailable   |-> "GeocoderServiceError",
      GeocoderQuotaExceeded |-> "GeocoderServiceError",
      GeocoderServiceError  |-> "GeopyError",
      GeopyError            |-> "Exception",
      ValueError            |-> "Exception",
      TypeError             |-> "Exception",
      AttributeError        |-> "Exception",
      UnicodeDecodeError    |-> "ValueError",
      PermissionError       |-> "Exception",
      Exception             |-> "BaseException",
      KeyboardInterrupt     |-> "BaseException",
      BaseException         |-> "BaseException" ]

RECURSIVE IsInstance(_, _)
IsInstance(exc, cls) ==
    IF exc = cls THEN TRUE
    ELSE IF exc = "BaseException" THEN FALSE
    ELSE IsInstance(BaseOf[exc], cls)

\* The except clauses with the general provider error tested first
ExceptClauses_ServiceErrorFirst ==
    << <<"GeocoderServiceError", "SERVICE_ERROR">>,
       <<"GeocoderTimedOut", "TIMEOUT">>,
       <<"GeocoderUnavailable", "SERVICE_UNAVAILABLE">>,
       <<"Exception", "UNEXPECTED_ERROR">> >>

\* The except clauses of geocode_place and reverse_geocode_address, in order
ExceptClauses ==
    << <<"GeocoderTimedOut", "TIMEOUT">>,
       <<"GeocoderUnavailable", "SERVICE_UNAVAILABLE">>,
       <<"GeocoderServiceError", "SERVICE_ERROR">>,
       <<"Exception", "UNEXPECTED_ERROR">> >>

\* First except clause that matches exc: 0 when none does (exc propagates)
MatchingClause(exc) ==
    With({i \in 1..Len(ExceptClauses) : IsInstance(exc, ExceptClauses[i][1])},
         LAMBDA hits : IF hits = {} THEN 0 ELSE MinOf(hits))

\* A function's outcome: the exception it raises ("none" when it returns) and
\* the GeocodeResult it returns
Returned(r) == [raised |-> "none", val |-> r]

Raised(exc) == [raised |-> exc, val |-> GeocodeResult(None, "None", NoText)]

\* the except chain applied to an exception raised inside the try block
Handle(exc) ==
    With(MatchingClause(exc),
         LAMBDA i : IF i = 0 THEN Raised(exc)
                    ELSE Returned(GeocodeResult(None, ExceptClauses[i][2],
                                                Text("str(exc)"))))

(***************************************************************************)
(* Raw coordinate arguments: None, a float, a string, or another object    *)
(***************************************************************************)

Zero == [m |-> 0, k |-> 0]

RawNone == [t |-> "none", f |-> Zero, s |-> <<>>]

RawFloat(f) == [t |-> "float", f |-> f, s |-> <<>>]

RawStr(s) == [t |-> "str", f |-> Zero, s |-> s]

RawObj == [t |-> "object", f |-> Zero, s |-> <<>>]

\* float(x): a float is itself, a string is parsed (ValueError), any other
\* object, None included, is a TypeError
ToFloat(raw) ==
    IF raw.t = "float" THEN [exc |-> "none", f |-> raw.f]
    ELSE IF raw.t = "str"
         THEN With(ParseFloat(raw.s),
                   LAMBDA parsed : IF parsed.ok THEN [exc |-> "none", f |-> parsed.f]
                                   ELSE [exc |-> "ValueError", f |-> Zero])
    ELSE [exc |-> "TypeError", f |-> Zero]

(***************************************************************************)
(* geocode_place and reverse_geocode_address                               *)
(***************************************************************************)

\* a locality that prefers the town to the city
LocalityOf_TownFirst(addr) == OrElse(addr.town, OrElse(addr.city, addr.village))

\* addr.get("city") or addr.get("town") or addr.get("village")
LocalityOf(addr) == OrElse(addr.city, OrElse(addr.town, addr.village))

\* The try block of reverse_geocode_address once the provider has returned
FormatLocation(out) ==
    IF out.t \in {"falsy", "noraw"}
    THEN Returned(GeocodeResult(None, "NO_RESULTS",
                                Text("No address found via reverse geocoding.")))
    ELSE IF out.nonstr THEN Handle("TypeError")
    ELSE With(Join(Truthy(<<out.addr.house_number, out.addr.road, LocalityOf(out.addr),
                            out.addr.state, out.addr.postcode>>), <<",", " ">>),
              LAMBDA full_addr :
                  IF Len(full_addr) > 0
                  THEN Returned(GeocodeResult(Some(full_addr), "None", NoText))
                  ELSE Returned(GeocodeResult(None, "INCOMPLETE_ADDRESS",
                                              Text("Address found but incomplete."))))

\* whether reverse_geocode_address invokes the provider
ReverseCalls(lat, lon) == lat.t # "none" /\ lon.t # "none"

reverse_geocode_address(lat, lon, out) ==
    IF lat.t = "none" \/ lon.t = "none"
    THEN Returned(GeocodeResult(None, "MISSING_LAT_LON", Text("Missing lat/lon.")))
    ELSE IF out.t = "raise" THEN Handle(out.exc)
    ELSE FormatLocation(out)

\* whether geocode_place invokes the provider: `if not query` returns first
PlaceCalls(query) == query.some /\ Len(query.v) > 0

geocode_place(query, out) ==
    IF ~PlaceCalls(query)
    THEN Returned(GeocodeResult(None, "EMPTY_QUERY", Text("Query cannot be empty.")))
    ELSE IF out.t = "raise" THEN Handle(out.exc)
    ELSE IF out.t \in {"falsy", "noraw"}
    THEN Returned(GeocodeResult(None, "NO_RESULTS", Text("No results found.")))
    ELSE IF ~out.coords THEN Handle("AttributeError")
    ELSE Returned(GeocodeResult(Some(<<"latitude", "longitude">>), "None", NoText))

(***************************************************************************)
(* ReverseGeocodeCache: the map, its file, load and save                   *)
(***************************************************************************)

EmptyMap == [k \in {} |-> GeocodeResult(None, "None", NoText)]

\* File contents.  kind "absent": no file; "unreadable": exists, read_text
\* raises OSError; "undecodable": bytes that are not UTF-8; "text": decodable
\* text whose JSON root is "invalid" (not JSON), "array" (JSON, not an
\* object) or "object" with the items in file order; "partial": a file
\* opened for writing whose text has not been written completely.
Absent == [kind |-> "absent", root |-> "", items |-> <<>>]

Unreadable == [kind |-> "unreadable", root |-> "", items |-> <<>>]

Undecodable == [kind |-> "undecodable", root |-> "", items |-> <<>>]

InvalidJson == [kind |-> "text", root |-> "invalid", items |-> <<>>]

JsonArray == [kind |-> "text", root |-> "array", items |-> <<>>]

JsonObject(items) == [kind |-> "text", root |-> "object", items |-> items]

Partial == [kind |-> "partial", root |-> "", items |-> <<>>]

\* One member of the JSON object: a key and a payload that is a JSON object
\* (t = "dict") with the three fields read by load, or some other JSON value
Item(key, payload) == [key |-> key, payload |-> payload]

DictPayload(value, error_code, error_message) ==
    [t |-> "dict", value |-> value, error_code |-> error_code,
     error_message |-> error_message]

OtherPayload == [t |-> "other", value |-> None, error_code |-> NoText, error_message |-> NoText]

\* f"{lat},{lon}"
KeyStr(key) == FloatRepr(key[1]) \o <<",">> \o FloatRepr(key[2])

\* the payload dict that save builds for one result
SavePayload(result) ==
    DictPayload(result.value,
                IF result.error_code # "None"
                THEN Text(GeocodeErrorCode[result.error_code]) ELSE NoText,
                result.error_message)

\* json.dumps(..., sort_keys=True): the members ordered by key text
RECURSIVE SortedItems(_, _)
SortedItems(data, keys) ==
    IF keys = {} THEN <<>>
    ELSE With(CHOOSE a \in keys : \A b \in keys \ {a} : LexLess(KeyStr(a), KeyStr(b)),
              LAMBDA k : <<Item(KeyStr(k), SavePayload(data[k]))>>
                         \o SortedItems(data, keys \ {k}))

\* the text save writes for a map
Serialize(data) == JsonObject(SortedItems(data, DOMAIN data))

\* a key that load skips
NoKey == [ok |-> FALSE, key |-> <<Zero, Zero>>]

\* the two halves of the key taken in the wrong order
ParseKeyParts_Swapped(lat, lon) ==
    IF ~lat.ok \/ ~lon.ok THEN NoKey ELSE [ok |-> TRUE, key |-> <<lon.f, lat.f>>]

\* lat = float(lat_str); lon = float(lon_str)
ParseKeyParts(lat, lon) ==
    IF ~lat.ok \/ ~lon.ok THEN NoKey ELSE [ok |-> TRUE, key |-> <<lat.f, lon.f>>]

\* key.split(",", 1) unpacked into two names, then float() of each
ParseKey(key) ==
    With(Find(key, <<",">>),
         LAMBDA comma : IF comma = 0 THEN NoKey
                        ELSE ParseKeyParts(ParseFloat(Slice(key, 1, comma - 1)),
                                           ParseFloat(Slice(key, comma + 1, Len(key)))))

MapSet(data, key, value) ==
    [k \in DOMAIN data \cup {key} |-> IF k = key THEN value ELSE data[k]]

\* error_code = payload.get("error_code");
\* GeocodeErrorCode(error_code) if error_code else None
LoadCode(ec) ==
    IF ec.some /\ ec.v # "" THEN CodeFromValue(ec.v) ELSE [ok |-> TRUE, code |-> "None"]

RECURSIVE LoadItems(_, _)
\* one item whose key parsed to pk and whose error code converted to code
LoadItem(items, data, pk, code) ==
    IF ~pk.ok \/ items[1].payload.t # "dict" THEN LoadItems(Tail(items), data)
    ELSE IF ~code.ok THEN [raised |-> "ValueError", data |-> data]
    ELSE LoadItems(Tail(items),
                   MapSet(data, pk.key,
                          GeocodeResult(items[1].payload.value, code.code,
                                        items[1].payload.error_message)))

\* The loop of load over raw.items(): raised is the exception that escapes
LoadItems(items, data) ==
    IF Len(items) = 0 THEN [raised |-> "none", data |-> data]
    ELSE LoadItem(items, data, ParseKey(items[1].key),
                  LoadCode(items[1].payload.error_code))

\* ReverseGeocodeCache.load(path): the exception raised ("none") and the map
LoadFile(f) ==
    IF f.kind = "absent" THEN [raised |-> "none", data |-> EmptyMap]
    ELSE IF f.kind = "unreadable" THEN [raised |-> "PermissionError", data |-> EmptyMap]
    ELSE IF f.kind = "undecodable" THEN [raised |-> "UnicodeDecodeError", data |-> EmptyMap]
    ELSE IF f.kind = "partial" \/ f.root = "invalid"
         THEN [raised |-> "none", data |-> EmptyMap]
    ELSE IF f.root # "object" THEN [raised |-> "none", data |-> EmptyMap]
    ELSE LoadItems(f.items, EmptyMap)

\* a get that never finds the key
CacheGet_NeverHits(data, key) ==
    [hit |-> FALSE, val |-> GeocodeResult(None, "None", NoText)]

\* ReverseGeocodeCache.get
CacheGet(data, key) ==
    IF key \in DOMAIN data THEN [hit |-> TRUE, val |-> data[key]]
    ELSE [hit |-> FALSE, val |-> GeocodeResult(None, "None", NoText)]

\* key = (float(lat), float(lon))
KeyOf(flat, flon) ==
    IF flat.exc # "none" THEN [exc |-> flat.exc, key |-> <<Zero, Zero>>]
    ELSE IF flon.exc # "none" THEN [exc |-> flon.exc, key |-> <<Zero, Zero>>]
    ELSE [exc |-> "none", key |-> <<flat.f, flon.f>>]

CacheKey(lat, lon) == KeyOf(ToFloat(lat), ToFloat(lon))

\* a cached lookup that stores addresses only, no error result
CachedOrLive_AddressesOnly(data, ck, cached, r) ==
    IF cached.hit
    THEN [res |-> Returned(cached.val), called |-> FALSE, stored |-> FALSE, data |-> data]
    ELSE IF r.raised # "none" \/ ~Ok(r.val)
    THEN [res |-> r, called |-> TRUE, stored |-> FALSE, data |-> data]
    ELSE [res |-> r, called |-> TRUE, stored |-> TRUE, data |-> MapSet(data, ck.key, r.val)]

\* reverse_geocode_address_cached from the cache lookup on: ck is the key,
\* cached what cache.get returned, r what the live lookup returns
CachedOrLive(data, ck, cached, r) ==
    IF cached.hit
    THEN [res |-> Returned(cached.val), called |-> FALSE, stored |-> FALSE, data |-> data]
    ELSE IF r.raised # "none"
    THEN [res |-> r, called |-> TRUE, stored |-> FALSE, data |-> data]
    ELSE [res |-> r, called |-> TRUE, stored |-> TRUE, data |-> MapSet(data, ck.key, r.val)]

\* reverse_geocode_address_cached up to the end of cache.set's assignment:
\* what it returns or raises, whether the provider was invoked, whether set
\* is called, and the map afterwards
reverse_geocode_address_cached(lat, lon, out, data) ==
    IF lat.t = "none" \/ lon.t = "none"
    THEN [res |-> Returned(GeocodeResult(None, "MISSING_LAT_LON", Text("Missing lat/lon."))),
          called |-> FALSE, stored |-> FALSE, data |-> data]
    ELSE With(CacheKey(lat, lon),
              LAMBDA ck :
                  IF ck.exc # "none"
                  THEN [res |-> Raised(ck.exc), called |-> FALSE, stored |-> FALSE,
                        data |-> data]
                  ELSE CachedOrLive(data, ck, CacheGet(data, ck.key),
                                    reverse_geocode_address(lat, lon, out)))

(***************************************************************************)
(* Inputs of the cache and lookup operations                               *)
(***************************************************************************)

\* provider invocations counted per process history
MaxCalls == 2

Lat40 == [m |-> 40, k |-> 0]

LonW == [m |-> -735, k |-> 1]

Lat7 == [m |-> 725, k |-> 2]

\* (lat, lon) arguments: floats, decimal strings of the same coordinate,
\* a second coordinate, absent values, text that is no number, an object
RawPairs ==
    { <<RawFloat(Lat40), RawFloat(LonW)>>,
      <<RawStr(<<"4", "0", ".", "0">>), RawStr(<<"-", "7", "3", ".", "5", "0">>)>>,
      <<RawFloat(Lat7), RawFloat(Zero)>>,
      <<RawNone, RawFloat(LonW)>>,
      <<RawFloat(Lat40), RawNone>>,
      <<RawStr(<<"a", "b", "c">>), RawFloat(LonW)>>,
      <<RawFloat(Lat40), RawObj>> }

AddrFull ==
    [NoAddr EXCEPT !.house_number = Some(<<"1", "2">>),
                   !.road = Some(<<"E", "l", "m", " ", "S", "t">>),
                   !.city = Some(<<"A", "d", "a">>),
                   !.state = Some(<<"C", "A">>),
                   !.postcode = Some(<<"9", "0", "2", "1", "0">>)]

AddrTown == [NoAddr EXCEPT !.town = Some(<<"R", "y", "e">>), !.state = Some(<<"C", "A">>)]

AddrHamlet == [NoAddr EXCEPT !.hamlet = Some(<<"L", "e", "e">>)]

\* what the provider may do on one call
Outcomes ==
    { Location(AddrFull), Location(AddrTown), Location(AddrHamlet), Location(NoAddr),
      BadTypeLocation, NoCoordsLocation(AddrFull), Falsy, NoRaw,
      Raises("GeocoderTimedOut"), Raises("GeocoderUnavailable"),
      Raises("GeocoderServiceError"), Raises("GeocoderQuotaExceeded"),
      Raises("GeopyError"), Raises("ValueError") }

\* the outcomes that the cache stores differently: an address, no result,
\* no address fields, a geopy error and any other error
CacheOutcomes ==
    { Location(AddrFull), Location(AddrHamlet), Falsy,
      Raises("GeocoderTimedOut"), Raises("ValueError") }

Queries == { None, Some(<<>>), Some(<<"A", "d", "a", " ", "F", "D">>) }

StoredAddr == Some(<<"1", "2", ",", " ", "E", "l", "m", " ", "S", "t">>)

\* Cache files found at start: none, unreadable ones, and JSON written by
\* hand or by another tool
InitFiles ==
    { Absent, Unreadable, Undecodable, InvalidJson, JsonArray,
      JsonObject(<< Item(<<"n", "o", "c", "o", "m", "m", "a">>, DictPayload(StoredAddr, NoText, NoText)),
                    Item(<<"7", ".", "2", "5", ",", "0", ".", "0">>, OtherPayload),
                    Item(<<"4", "0", ",", "-", "7", "3", ".", "5">>, DictPayload(StoredAddr, NoText, NoText)),
                    Item(<<"4", "0", ".", "0", ",", "-", "7", "3", ".", "5">>,
                         DictPayload(None, Text("timeout"), Text("late"))) >>),
      JsonObject(<< Item(<<"4", "0", ".", "0", ",", "-", "7", "3", ".", "5">>, DictPayload(None, Text("bogus"), NoText)) >>),
      JsonObject(<< Item(<<"4", "0", ".", "0", ",", "-", "7", "3", ".", "5">>, DictPayload(None, Text(""), NoText)),
                    Item(<<"7", ".", "2", "5", ",", "0", ".", "0">>,
                         DictPayload(StoredAddr, Text("no-results"), NoText)) >>) }

\* Maps a cache can hold after lookups, whose serializations are the files
\* that save() has written
SavedMaps ==
    { EmptyMap,
      MapSet(EmptyMap, <<Lat40, LonW>>, GeocodeResult(StoredAddr, "None", NoText)),
      MapSet(MapSet(EmptyMap, <<Lat40, LonW>>,
                    GeocodeResult(None, "TIMEOUT", Text("str(exc)"))),
             <<Lat7, Zero>>, GeocodeResult(StoredAddr, "None", NoText)),
      MapSet(MapSet(EmptyMap, <<Lat7, Zero>>,
                    GeocodeResult(None, "NO_RESULTS",
                                  Text("No address found via reverse geocoding."))),
             <<LonW, Lat40>>, GeocodeResult(None, "INCOMPLETE_ADDRESS",
                                            Text("Address found but incomplete."))) }

SavedFiles == {Serialize(m) : m \in SavedMaps}

(***************************************************************************)
(* State.  The cache process:                                              *)
(*   file, tmp  the cache file at path and its sibling path + ".tmp"       *)
(*   cache      the ReverseGeocodeCache object of the running process      *)
(*   pc         "start": no cache object yet; "idle": between calls;       *)
(*              "save_open", "save_write", "save_replace": inside save();  *)
(*              "off": no cache process                                    *)
(*   calls      how often the provider callable has been invoked           *)
(*   op, ret    the call being served and what it returns or raises        *)
(* A run of address_cleanup.py (main and process_dataframe):               *)
(*   frame      the rows of the input file                                 *)
(*   opts       the command line options of the run                        *)
(*   bpc        "off": no run; "start": before load_input; "rows": in the  *)
(*              loop over the targeted rows; "write": process_dataframe    *)
(*              has returned; "done": the output is written; "exit": the   *)
(*              run ended with SystemExit; "raised": with another exception*)
(*   df         the dataframe in memory                                    *)
(*   targets    the indexes of the targeted rows still to be visited       *)
(*   corrected_addresses  the list filled by the loop, with the loop's     *)
(*              locals for each visited row                                *)
(*   addr_cache main's `cache` dict: coordinate -> address text            *)
(*   summary    target_count and corrected_count as returned               *)
(*   disk       the output file                                            *)
(*   plog       the coordinates the reverse provider was asked for, over   *)
(*              all runs                                                   *)
(*   runs       runs started after an interrupted one                      *)
(***************************************************************************)
VARIABLES file, tmp, cache, pc, calls, op, ret,
          frame, opts, columns, bpc, df, targets, corrected_addresses, addr_cache,
          summary, disk, plog, runs,
          files, fpos, outputs,
          now, last_call, requests,
          destination, temp_path, attempts, dpc, fetches, dopts, error

cacheVars == <<file, tmp, cache, pc, calls, op, ret>>

batchVars == <<frame, opts, columns, bpc, df, targets, corrected_addresses, addr_cache,
               summary, disk, plog, runs>>

\* the files of a run in directory mode
dirVars == <<files, fpos, outputs>>

\* the clock and the two rate limiters of a run
clockVars == <<now, last_call, requests>>

\* a call of download_pbf
downloadVars == <<destination, temp_path, attempts, dpc, fetches, dopts, error>>

vars == <<file, tmp, cache, pc, calls, op, ret,
          frame, opts, columns, bpc, df, targets, corrected_addresses, addr_cache,
          summary, disk, plog, runs,
          files, fpos, outputs,
          now, last_call, requests,
          destination, temp_path, attempts, dpc, fetches, dopts, error>>

NoCache == [live |-> FALSE, bound |-> FALSE, data |-> EmptyMap]

\* called: whether the provider was invoked while serving the call
Call(name, lat, lon, q, out, called) ==
    [name |-> name, lat |-> lat, lon |-> lon, q |-> q, out |-> out, called |-> called]

NoCall == Call("none", RawNone, RawNone, None, NotCalled, FALSE)

NoRet == Returned(GeocodeResult(None, "None", NoText))

\* parse_args: the options a run is started with
Options(only_missing, only_incomplete, enable_forward_search, lat_lon_columns) ==
    [only_missing |-> only_missing, only_incomplete |-> only_incomplete,
     enable_forward_search |-> enable_forward_search,
     lat_lon_columns |-> lat_lon_columns]

NoSummary == [target_count |-> 0, corrected_count |-> 0]

NoDisk == [written |-> FALSE, rows |-> <<>>]

EmptyDict == [k \in {} |-> <<>>]

\* no run of address_cleanup.py
NoBatch ==
    /\ frame = <<>>
    /\ opts = Options(FALSE, FALSE, FALSE, TRUE)
    /\ columns = {}
    /\ bpc = "off"
    /\ df = <<>>
    /\ targets = <<>>
    /\ corrected_addresses = <<>>
    /\ addr_cache = EmptyDict
    /\ summary = NoSummary
    /\ disk = NoDisk
    /\ plog = <<>>
    /\ runs = 0

\* no directory, no request sent, no download
NoDirectory == files = <<>> /\ fpos = 0 /\ outputs = <<>>

NoRequests ==
    /\ now = 0
    /\ last_call = [reverse |-> -1, forward |-> -1]
    /\ requests = <<>>

NoDownload ==
    /\ destination = "absent"
    /\ temp_path = "absent"
    /\ attempts = 0
    /\ dpc = "off"
    /\ fetches = 0
    /\ dopts = [overwrite |-> FALSE, max_retries |-> 0]
    /\ error = [type |-> "none", code |-> 0]

InitWith(cache_files) ==
    /\ file \in cache_files
    /\ tmp = Absent
    /\ cache = NoCache
    /\ pc = "start"
    /\ calls = 0
    /\ op = NoCall
    /\ ret = NoRet
    /\ NoBatch
    /\ NoDirectory
    /\ NoRequests
    /\ NoDownload

Init == InitWith(InitFiles)

\* cache = ReverseGeocodeCache.load(path)
Load ==
    /\ pc = "start"
    /\ op' = Call("load", RawNone, RawNone, None, NotCalled, FALSE)
    /\ \E loaded \in {LoadFile(file)} :
           /\ ret' = [NoRet EXCEPT !.raised = loaded.raised]
           /\ IF loaded.raised = "none"
              THEN /\ cache' = [live |-> TRUE, bound |-> TRUE, data |-> loaded.data]
                   /\ pc' = "idle"
              ELSE UNCHANGED <<cache, pc>>
    /\ UNCHANGED <<file, tmp, calls>>
    /\ UNCHANGED batchVars
    /\ UNCHANGED <<dirVars, clockVars, downloadVars>>

\* the cached lookup with a set that keeps the result in memory only
CachedLookup_NoSave(lat, lon, out) ==
    /\ pc = "idle"
    /\ \E r \in {reverse_geocode_address_cached(lat, lon, out, cache.data)} :
           /\ r.called => calls < MaxCalls
           /\ op' = Call("reverse_cached", lat, lon, None, NotCalled, r.called)
           /\ ret' = r.res
           /\ calls' = IF r.called THEN calls + 1 ELSE calls
           /\ cache' = [cache EXCEPT !.data = r.data]
           /\ pc' = "idle"
    /\ UNCHANGED <<file, tmp>>
    /\ UNCHANGED batchVars
    /\ UNCHANGED <<dirVars, clockVars, downloadVars>>

\* reverse_geocode_address_cached(lat, lon, geocode, cache); cache.set stores
\* the result and, with a path, enters save()
CachedLookup(lat, lon, out) ==
    /\ pc = "idle"
    /\ \E r \in {reverse_geocode_address_cached(lat, lon, out, cache.data)} :
           /\ r.called => calls < MaxCalls
           /\ op' = Call("reverse_cached", lat, lon, None, NotCalled, r.called)
           /\ ret' = r.res
           /\ calls' = IF r.called THEN calls + 1 ELSE calls
           /\ cache' = [cache EXCEPT !.data = r.data]
           /\ pc' = IF r.stored /\ cache.bound THEN "save_open" ELSE "idle"
    /\ UNCHANGED <<file, tmp>>
    /\ UNCHANGED batchVars
    /\ UNCHANGED <<dirVars, clockVars, downloadVars>>

\* reverse_geocode_address(lat, lon, geocode)
ReverseLookup(lat, lon, out) ==
    /\ pc = "idle"
    /\ ReverseCalls(lat, lon) => calls < MaxCalls
    /\ op' = Call("reverse", lat, lon, None,
                IF ReverseCalls(lat, lon) THEN out ELSE NotCalled, ReverseCalls(lat, lon))
    /\ ret' = reverse_geocode_address(lat, lon, out)
    /\ calls' = IF ReverseCalls(lat, lon) THEN calls + 1 ELSE calls
    /\ UNCHANGED <<file, tmp, cache, pc>>
    /\ UNCHANGED batchVars
    /\ UNCHANGED <<dirVars, clockVars, downloadVars>>

\* geocode_place(query, geocode)
GeocodePlace(q, out) ==
    /\ pc = "idle"
    /\ PlaceCalls(q) => calls < MaxCalls
    /\ op' = Call("geocode_place", RawNone, RawNone, q,
                IF PlaceCalls(q) THEN out ELSE NotCalled, PlaceCalls(q))
    /\ ret' = geocode_place(q, out)
    /\ calls' = IF PlaceCalls(q) THEN calls + 1 ELSE calls
    /\ UNCHANGED <<file, tmp, cache, pc>>
    /\ UNCHANGED batchVars
    /\ UNCHANGED <<dirVars, clockVars, downloadVars>>

\* cache.save() called by the owner of the cache
Save ==
    /\ pc = "idle"
    /\ op' = Call("save", RawNone, RawNone, None, NotCalled, FALSE)
    /\ ret' = NoRet
    /\ pc' = IF cache.bound THEN "save_open" ELSE "idle"
    /\ UNCHANGED <<file, tmp, cache, calls>>
    /\ UNCHANGED batchVars
    /\ UNCHANGED <<dirVars, clockVars, downloadVars>>

\* a save that opens the target itself for writing
SaveOpen_InPlace ==
    /\ pc = "save_open"
    /\ file' = Partial
    /\ pc' = "save_write"
    /\ UNCHANGED <<tmp, cache, calls, op, ret>>
    /\ UNCHANGED batchVars
    /\ UNCHANGED <<dirVars, clockVars, downloadVars>>

\* tmp_path.write_text: the file is created or truncated ...
SaveOpen ==
    /\ pc = "save_open"
    /\ tmp' = Partial
    /\ pc' = "save_write"
    /\ UNCHANGED <<file, cache, calls, op, ret>>
    /\ UNCHANGED batchVars
    /\ UNCHANGED <<dirVars, clockVars, downloadVars>>

\* ... and the whole text is written and the file closed
SaveWrite ==
    /\ pc = "save_write"
    /\ tmp' = Serialize(cache.data)
    /\ pc' = "save_replace"
    /\ UNCHANGED <<file, cache, calls, op, ret>>
    /\ UNCHANGED batchVars
    /\ UNCHANGED <<dirVars, clockVars, downloadVars>>

\* tmp_path.replace(self.path)
SaveReplace ==
    /\ pc = "save_replace"
    /\ file' = tmp
    /\ tmp' = Absent
    /\ pc' = "idle"
    /\ UNCHANGED <<cache, calls, op, ret>>
    /\ UNCHANGED batchVars
    /\ UNCHANGED <<dirVars, clockVars, downloadVars>>

\* The process ends at any point (exit, kill, power loss); the next process
\* starts with the files as they are and no cache object
Halt ==
    /\ pc \notin {"start", "off"}
    /\ pc' = "start"
    /\ cache' = NoCache
    /\ op' = NoCall
    /\ ret' = NoRet
    /\ UNCHANGED <<file, tmp, calls>>
    /\ UNCHANGED batchVars
    /\ UNCHANGED <<dirVars, clockVars, downloadVars>>

Next ==
    \/ Load
    \/ \E p \in RawPairs, out \in CacheOutcomes : CachedLookup(p[1], p[2], out)
    \/ Save
    \/ SaveOpen
    \/ SaveWrite
    \/ SaveReplace
    \/ Halt

Spec == Init /\ [][Next]_vars

\* The lookup functions on their own
LookupNext ==
    \/ Load
    \/ \E p \in RawPairs, out \in Outcomes : ReverseLookup(p[1], p[2], out)
    \/ \E q \in Queries, out \in Outcomes : GeocodePlace(q, out)

LookupSpec == InitWith({Absent}) /\ [][LookupNext]_vars

\* The cache process started on a file that save() has written
SavedSpec == InitWith(SavedFiles) /\ [][Next]_vars

(***************************************************************************)
(* Address text (firefighter_finder/address_utils.py)                      *)
(***************************************************************************)

\* regex \b at position i: between s[i - 1] and s[i]
WordBoundary(s, i) ==
    (i > 1 /\ i - 1 <= Len(s) /\ IsWord(s[i - 1])) # (i >= 1 /\ i <= Len(s) /\ IsWord(s[i]))

\* a pattern without the optional comma: \s+
IsStateZipGap_BlanksOnly(sep) ==
    /\ Len(sep) >= 1
    /\ \A i \in 1..Len(sep) : IsSpace(sep[i])

\* \s*,?\s+ of STATE_ZIP_RE: blanks around at most one comma, ending in a blank
IsStateZipGap(sep) ==
    /\ Len(sep) >= 1
    /\ IsSpace(sep[Len(sep)])
    /\ \A i \in 1..Len(sep) : IsSpace(sep[i]) \/ sep[i] = ","
    /\ Cardinality({i \in 1..Len(sep) : sep[i] = ","}) <= 1

\* (\d{5}(?:-\d{4})?)\b of STATE_ZIP_RE matches from position j
ZipAt(s, j) ==
    /\ j + 4 <= Len(s)
    /\ AllDigits(SubSeq(s, j, j + 4))
    /\ \/ WordBoundary(s, j + 5)
       \/ /\ j + 9 <= Len(s)
          /\ s[j + 5] = "-"
          /\ AllDigits(SubSeq(s, j + 6, j + 9))
          /\ WordBoundary(s, j + 10)

\* STATE_ZIP_RE matches from position i
StateZipAt(s, i) ==
    /\ i + 1 <= Len(s)
    /\ IsUpper(s[i])
    /\ IsUpper(s[i + 1])
    /\ WordBoundary(s, i)
    /\ \E j \in (i + 3)..Len(s) : IsStateZipGap(SubSeq(s, i + 2, j - 1)) /\ ZipAt(s, j)

\* STATE_ZIP_RE.search(s).start() as a 1-based position, 0 without a match
StateZipSearch(s) ==
    With({i \in 1..Len(s) : StateZipAt(s, i)},
         LAMBDA hits : IF hits = {} THEN 0 ELSE MinOf(hits))

\* text.split(",")[0]
BeforeFirstComma(s) ==
    With(Find(s, <<",">>), LAMBDA c : IF c = 0 THEN s ELSE Slice(s, 1, c - 1))

\* text.split(",")[-1]
AfterLastComma(s) ==
    With(Occurrences(s, <<",">>),
         LAMBDA commas : IF commas = {} THEN s ELSE Slice(s, MaxOf(commas) + 1, Len(s)))

\* re.search(r"[A-Za-z]", s)
HasAlpha(s) == \E i \in 1..Len(s) : IsAlpha(s[i])

\* address_is_complete after the strip: m is where the state/ZIP match starts
CompleteFrom(a, m, street_part) ==
    /\ m # 0
    /\ Len(street_part) > 0
    /\ IsDigit(street_part[1])
    /\ HasAlpha(street_part)
    /\ With(RStripChars(Slice(a, 1, m - 1), {",", " "}),
            LAMBDA before_state :
                /\ Len(before_state) > 0
                /\ HasAlpha(Strip(AfterLastComma(before_state))))

\* address: optional text, None standing for any value that is no str
address_is_complete(address) ==
    IF ~address.some THEN FALSE
    ELSE With(Strip(address.v),
              LAMBDA a : /\ Len(a) > 0
                         /\ CompleteFrom(a, StateZipSearch(a), Strip(BeforeFirstComma(a))))

\* build_address(location.raw["address"])
build_address(address) ==
    With(Strip(Join(Truthy(<<address.house_number, address.road>>), <<" ">>)),
         LAMBDA street :
             Join(Truthy(<<Some(street),
                           OrElse(address.city,
                                  OrElse(address.town,
                                         OrElse(address.village, address.hamlet))),
                           address.state, address.postcode>>),
                  <<",", " ">>))

\* type(exc).__name__
ExcName ==
    [ GeocoderTimedOut      |-> <<"G", "e", "o", "c", "o", "d", "e", "r", "T", "i", "m", "e", "d", "O", "u", "t">>,
      GeocoderUnavailable   |-> <<"G", "e", "o", "c", "o", "d", "e", "r", "U", "n", "a", "v", "a", "i", "l", "a", "b", "l", "e">>,
      GeocoderServiceError  |-> <<"G", "e", "o", "c", "o", "d", "e", "r", "S", "e", "r", "v", "i", "c", "e", "E", "r", "r", "o", "r">>,
      GeocoderQuotaExceeded |-> <<"G", "e", "o", "c", "o", "d", "e", "r", "Q", "u", "o", "t", "a", "E", "x", "c", "e", "e", "d", "e", "d">>,
      GeopyError            |-> <<"G", "e", "o", "p", "y", "E", "r", "r", "o", "r">>,
      ValueError            |-> <<"V", "a", "l", "u", "e", "E", "r", "r", "o", "r">>,
      TypeError             |-> <<"T", "y", "p", "e", "E", "r", "r", "o", "r">> ]

NoAddressFound == <<"N", "o", " ", "a", "d", "d", "r", "e", "s", "s", " ", "f", "o", "u", "n", "d", " ", "v", "i", "a", " ", "r", "e", "v", "e", "r", "s", "e", " ", "g", "e", "o", "c", "o", "d", "i", "n", "g">>

AddressIncomplete == <<"A", "d", "d", "r", "e", "s", "s", " ", "f", "o", "u", "n", "d", " ", "b", "u", "t", " ", "i", "n", "c", "o", "m", "p", "l", "e", "t", "e">>

LookupFailed(exc) == <<"L", "o", "o", "k", "u", "p", " ", "f", "a", "i", "l", "e", "d", ":", " ">> \o ExcName[exc]

ErrorDuringLookup == <<"E", "r", "r", "o", "r", " ", "d", "u", "r", "i", "n", "g", " ", "l", "o", "o", "k", "u", "p">>

MissingLatLon == <<"M", "i", "s", "s", "i", "n", "g", " ", "l", "a", "t", "/", "l", "o", "n">>

\* The try block of reverse_geocode and its except clauses: the exception
\* that escapes ("none") and the text stored and returned
ReverseText(out) ==
    IF out.t = "raise"
    THEN IF \/ IsInstance(out.exc, "GeocoderUnavailable")
            \/ IsInstance(out.exc, "GeocoderTimedOut")
            \/ IsInstance(out.exc, "GeocoderServiceError")
         THEN [raised |-> "none", val |-> LookupFailed(out.exc)]
         ELSE IF IsInstance(out.exc, "Exception")
         THEN [raised |-> "none", val |-> ErrorDuringLookup]
         ELSE [raised |-> out.exc, val |-> <<>>]
    ELSE IF out.t \in {"falsy", "noraw"} THEN [raised |-> "none", val |-> NoAddressFound]
    ELSE IF out.nonstr THEN [raised |-> "none", val |-> ErrorDuringLookup]
    ELSE With(build_address(out.addr),
              LAMBDA formatted :
                  [raised |-> "none",
                   val |-> IF Len(formatted) > 0 THEN formatted ELSE AddressIncomplete])

\* cache[key] = text; return cache[key]
StoreLookup(cache_dict, key, t) ==
    IF t.raised # "none"
    THEN [raised |-> t.raised, val |-> <<>>, called |-> TRUE, key |-> key,
          cache |-> cache_dict]
    ELSE [raised |-> "none", val |-> t.val, called |-> TRUE, key |-> key,
          cache |-> MapSet(cache_dict, key, t.val)]

\* reverse_geocode(lat, lon, geocode, cache): what it raises or returns,
\* whether the provider was invoked, and the dict afterwards
reverse_geocode(lat, lon, out, cache_dict) ==
    With(CacheKey(lat, lon),
         LAMBDA ck :
             IF ck.exc # "none"
             THEN [raised |-> ck.exc, val |-> <<>>, called |-> FALSE, key |-> ck.key,
                   cache |-> cache_dict]
             ELSE IF ck.key \in DOMAIN cache_dict
             THEN [raised |-> "none", val |-> cache_dict[ck.key], called |-> FALSE,
                   key |-> ck.key, cache |-> cache_dict]
             ELSE StoreLookup(cache_dict, ck.key, ReverseText(out)))

\* whether forward_geocode_address invokes the provider
ForwardCalls(query) == query.some /\ Len(query.v) > 0

\* forward_geocode_address(query, forward_geocode): the formatted address of
\* the location found for the query, None when there is no query, no
\* location or no address field
forward_geocode_address(query, out) ==
    IF ~ForwardCalls(query) THEN None
    ELSE IF out.t # "location" \/ out.nonstr THEN None
    ELSE With(build_address(out.addr),
              LAMBDA formatted : IF Len(formatted) > 0 THEN Some(formatted) ELSE None)

(***************************************************************************)
(* Rows of the dataframe.  A cell is absent (the column is missing, or the *)
(* value is None), NaN, or text; the coordinate cells are raw coordinates, *)
(* RawNone standing for NaN.                                               *)
(***************************************************************************)

CellAbsent == [t |-> "absent", s |-> <<>>]

CellNaN == [t |-> "nan", s |-> <<>>]

CellStr(s) == [t |-> "str", s |-> s]

\* pd.notna(value)
NotNa(cell) == cell.t = "str"

\* pd.notna(lat)
NotNaRaw(raw) == raw.t # "none"

\* str(value)
StrOf(cell) ==
    IF cell.t = "str" THEN cell.s
    ELSE IF cell.t = "nan" THEN <<"n", "a", "n">>
    ELSE <<"N", "o", "n", "e">>

\* str(value or ""): NaN is truthy
StrOrEmpty(cell) == IF cell.t = "absent" THEN <<>> ELSE StrOf(cell)

\* a row without a geometry, and a point
NoGeometry == [some |-> FALSE, y |-> Zero, x |-> Zero]

Point(y, x) == [some |-> TRUE, y |-> y, x |-> x]

BlankRow ==
    [name |-> CellAbsent, address |-> CellNaN, lat |-> RawNone, lon |-> RawNone,
     geometry |-> NoGeometry,
     city |-> CellAbsent, town |-> CellAbsent, state |-> CellAbsent,
     postcode |-> CellAbsent, zip |-> CellAbsent, zip_code |-> CellAbsent,
     county |-> CellAbsent]

\* the columns that hold a value other than address and the coordinates
OptionalColumns ==
    {"name", "geometry", "city", "town", "state", "postcode", "zip", "zip_code",
     "county"}

\* the row has a value in the column
HasValue(row, column) ==
    IF column = "geometry" THEN row.geometry.some ELSE row[column].t # "absent"

\* load_input: df.columns of the file read; a column other than address and
\* the coordinates is in the file when a row has a value in it
InputColumns(rows, lat_lon_columns) ==
    {"address"}
    \cup (IF lat_lon_columns THEN {"lat", "lon"} ELSE {})
    \cup {c \in OptionalColumns : \E i \in 1..Len(rows) : HasValue(rows[i], c)}

\* df.geometry.y, df.geometry.x: NaN for a row without a geometry
GeometryY(row) == IF row.geometry.some THEN RawFloat(row.geometry.y) ELSE RawNone

GeometryX(row) == IF row.geometry.some THEN RawFloat(row.geometry.x) ELSE RawNone

\* ensure_lat_lon: the data and its columns, or SystemExit
ensure_lat_lon(rows, cols) ==
    IF {"lat", "lon"} \subseteq cols
    THEN [raised |-> "none", rows |-> rows, columns |-> cols]
    ELSE IF "geometry" \notin cols
    THEN [raised |-> "SystemExit", rows |-> rows, columns |-> cols]
    ELSE [raised |-> "none",
          rows |-> [i \in 1..Len(rows) |->
                       [rows[i] EXCEPT !.lat = GeometryY(rows[i]),
                                       !.lon = GeometryX(rows[i])]],
          columns |-> cols \cup {"lat", "lon"}]

\* the default of process_dataframe's missing_pattern
MissingPattern == <<"N", "o", " ", "a", "d", "d", "r", "e", "s", "s", " ", "t", "a", "g", "s">>

\* one element of missing_mask
IsMissing(row) == Contains(StrOf(row.address), MissingPattern)

\* one element of incomplete_mask
IsIncomplete(row) == ~address_is_complete(Some(StrOf(row.address)))

\* a mask that selects every row
build_target_mask_EveryRow(rows, only_missing, only_incomplete) == 1..Len(rows)

\* build_target_mask: the indexes of the rows in target_mask
build_target_mask(rows, only_missing, only_incomplete) ==
    {i \in 1..Len(rows) :
        IF only_missing THEN IsMissing(rows[i])
        ELSE IF only_incomplete THEN IsIncomplete(rows[i])
        ELSE IsMissing(rows[i]) \/ IsIncomplete(rows[i])}

\* df.loc[target_mask].iterrows(): the targeted indexes in row order
RECURSIVE InOrder(_)
InOrder(S) == IF S = {} THEN <<>> ELSE <<MinOf(S)>> \o InOrder(S \ {MinOf(S)})

\* if text and text not in parts: parts.append(text)
AppendText(parts, text) ==
    IF Len(text) > 0 /\ \A i \in 1..Len(parts) : parts[i] # text
    THEN Append(parts, text) ELSE parts

\* one round of the loop over the fields
AppendField(parts, cell) ==
    IF NotNa(cell) THEN AppendText(parts, Strip(StrOf(cell))) ELSE parts

RECURSIVE AppendFields(_, _)
AppendFields(parts, cells) ==
    IF Len(cells) = 0 THEN parts
    ELSE AppendFields(AppendField(parts, cells[1]), Tail(cells))

\* the parts of the query before the loop over the fields
NameAndExisting(name, existing) ==
    (IF Len(name) > 0 THEN <<name>> ELSE <<>>)
    \o (IF Len(existing) > 0 /\ ~StartsWith(Lower(existing), <<"n", "o", " ", "a", "d", "d", "r", "e", "s", "s">>)
        THEN <<existing>> ELSE <<>>)

build_search_query(row, existing) ==
    With(AppendFields(NameAndExisting(Strip(StrOrEmpty(row.name)), existing),
                      <<row.city, row.town, row.state, row.postcode, row.zip,
                        row.zip_code, row.county>>),
         LAMBDA parts : IF Len(parts) = 0 THEN None ELSE Some(Join(parts, <<",", " ">>)))

(***************************************************************************)
(* process_dataframe, non-interactive: one round of the loop over the      *)
(* targeted rows                                                           *)
(***************************************************************************)

\* a truthy optional text
IsTruthy(o) == o.some /\ Len(o.v) > 0

\* the reverse lookup of a row without the try around it
GuardedReverse_Unguarded(r) == r

\* try: suggestion = reverse_geocode(...) except Exception as exc:
\*     suggestion = f"Lookup failed: {type(exc).__name__}"
GuardedReverse(r) ==
    IF r.raised # "none" /\ IsInstance(r.raised, "Exception")
    THEN [r EXCEPT !.raised = "none", !.val = LookupFailed(r.raised)]
    ELSE r

\* suggestion after the reverse attempt: None when the row has no coordinates
ReverseAttempt(row, rev_out, cache_dict, lat_lon_ready) ==
    IF lat_lon_ready /\ NotNaRaw(row.lat) /\ NotNaRaw(row.lon)
    THEN With(GuardedReverse(reverse_geocode(row.lat, row.lon, rev_out, cache_dict)),
              LAMBDA r : [raised |-> r.raised, suggestion |-> Some(r.val),
                          called |-> r.called, key |-> r.key, cache |-> r.cache])
    ELSE [raised |-> "none", suggestion |-> None, called |-> FALSE,
          key |-> <<Zero, Zero>>, cache |-> cache_dict]

\* the prefixes of a suggestion that make the forward search run
FailurePrefixes ==
    { <<"n", "o", " ", "a", "d", "d", "r", "e", "s", "s", " ", "f", "o", "u", "n", "d">>, <<"a", "d", "d", "r", "e", "s", "s", " ", "f", "o", "u", "n", "d", " ", "b", "u", "t", " ", "i", "n", "c", "o", "m", "p", "l", "e", "t", "e">>,
      <<"l", "o", "o", "k", "u", "p", " ", "f", "a", "i", "l", "e", "d">>, <<"e", "r", "r", "o", "r", " ", "d", "u", "r", "i", "n", "g", " ", "l", "o", "o", "k", "u", "p">> }

\* a forward search that runs whatever the reverse attempt gave
NeedsForward_Always(suggestion) == TRUE

\* not suggestion or suggestion.lower().startswith((...))
NeedsForward(suggestion) ==
    \/ ~IsTruthy(suggestion)
    \/ \E p \in FailurePrefixes : StartsWith(Lower(suggestion.v), p)

\* elif suggestion: suggestion_source = "reverse geocode"
ReverseSource(suggestion) == IF IsTruthy(suggestion) THEN "reverse geocode" ELSE "None"

\* a forward search whose result is taken without its source being recorded
ForwardChoice_SourceNotSet(suggestion, query, forward_suggestion) ==
    [suggestion |-> IF IsTruthy(forward_suggestion) THEN forward_suggestion
                    ELSE suggestion,
     suggestion_source |-> ReverseSource(suggestion),
     fwd_called |-> ForwardCalls(query), query |-> query,
     forward_suggestion |-> forward_suggestion]

\* the outcome of the forward search once forward_geocode_address returned
ForwardChoice(suggestion, query, forward_suggestion) ==
    IF IsTruthy(forward_suggestion)
    THEN [suggestion |-> forward_suggestion, suggestion_source |-> "forward search",
          fwd_called |-> ForwardCalls(query), query |-> query,
          forward_suggestion |-> forward_suggestion]
    ELSE [suggestion |-> suggestion, suggestion_source |-> ReverseSource(suggestion),
          fwd_called |-> ForwardCalls(query), query |-> query,
          forward_suggestion |-> forward_suggestion]

\* if enable_forward_search and forward_geocode: ... elif suggestion: ...
ForwardAttempt(row, existing, suggestion, fwd_out, enable_forward_search) ==
    IF enable_forward_search /\ NeedsForward(suggestion)
    THEN With(build_search_query(row, existing),
              LAMBDA query : ForwardChoice(suggestion, query,
                                           forward_geocode_address(query, fwd_out)))
    ELSE [suggestion |-> suggestion, suggestion_source |-> ReverseSource(suggestion),
          fwd_called |-> FALSE, query |-> None, forward_suggestion |-> None]

\* the non-interactive branch that sets corrected
Resolve(row, suggestion, existing, lat_lon_ready) ==
    IF ~lat_lon_ready \/ ~NotNaRaw(row.lat) \/ ~NotNaRaw(row.lon) THEN MissingLatLon
    ELSE IF IsTruthy(suggestion) THEN suggestion.v
    ELSE existing

\* the element appended to corrected_addresses, with the locals of the round
RowResult(idx, row, existing, rev, fwd, lat_lon_ready) ==
    [raised |-> rev.raised, idx |-> idx, existing |-> existing,
     reverse_suggestion |-> rev.suggestion, rev_called |-> rev.called, key |-> rev.key,
     query |-> fwd.query, forward_suggestion |-> fwd.forward_suggestion,
     fwd_called |-> fwd.fwd_called,
     suggestion |-> fwd.suggestion, suggestion_source |-> fwd.suggestion_source,
     corrected |-> Resolve(row, fwd.suggestion, existing, lat_lon_ready),
     cache |-> rev.cache]

\* the round after the reverse attempt
AfterReverse(idx, row, existing, rev, fwd_out, enable_forward_search, lat_lon_ready) ==
    IF rev.raised # "none"
    THEN RowResult(idx, row, existing, rev,
                   [suggestion |-> None, suggestion_source |-> "None",
                    fwd_called |-> FALSE, query |-> None, forward_suggestion |-> None],
                   lat_lon_ready)
    ELSE RowResult(idx, row, existing, rev,
                   ForwardAttempt(row, existing, rev.suggestion, fwd_out,
                                  enable_forward_search),
                   lat_lon_ready)

\* one round of `for idx, row in df.loc[target_mask].iterrows()`
EnrichRow(idx, row, rev_out, fwd_out, cache_dict, enable_forward_search, lat_lon_ready) ==
    AfterReverse(idx, row, Strip(StrOrEmpty(row.address)),
                 ReverseAttempt(row, rev_out, cache_dict, lat_lon_ready),
                 fwd_out, enable_forward_search, lat_lon_ready)

\* for idx, corrected in corrected_addresses: df.at[idx, address_column] = corrected
Assign(rows, done) ==
    [i \in 1..Len(rows) |->
        IF \E j \in 1..Len(done) : done[j].idx = i
        THEN [rows[i] EXCEPT !.address =
                 CellStr(done[CHOOSE j \in 1..Len(done) : done[j].idx = i].corrected)]
        ELSE rows[i]]

\* a count of every targeted row
CorrectedCount_EveryTarget(rows, done) == Len(done)

\* corrected_count: the targeted rows whose address is complete
CorrectedCount(rows, done) ==
    Cardinality({j \in 1..Len(done) :
                    address_is_complete(Some(StrOf(rows[done[j].idx].address)))})

(***************************************************************************)
(* Inputs of a run                                                         *)
(***************************************************************************)

\* runs started after an interrupted one
MaxRuns == 1

AddrFound ==
    [NoAddr EXCEPT !.house_number = Some(<<"5">>),
                   !.road = Some(<<"O", "a", "k", " ", "A", "v", "e">>),
                   !.city = Some(<<"A", "d", "a">>),
                   !.state = Some(<<"C", "A">>),
                   !.postcode = Some(<<"9", "0", "2", "1", "1">>)]

RowComplete ==
    [BlankRow EXCEPT !.address = CellStr(<<"1", "2", " ", "E", "l", "m", " ", "S", "t", ",", " ", "A", "d", "a", ",", " ", "C", "A", " ", "9", "0", "2", "1", "0">>),
                     !.lat = RawFloat(Lat40), !.lon = RawFloat(LonW)]

RowNoTags ==
    [BlankRow EXCEPT !.name = CellStr(<<"A", "d", "a", " ", "F", "D">>),
                     !.address = CellStr(<<"N", "o", " ", "a", "d", "d", "r", "e", "s", "s", " ", "t", "a", "g", "s">>),
                     !.lat = RawFloat(Lat40), !.lon = RawFloat(LonW),
                     !.city = CellStr(<<"A", "d", "a">>), !.state = CellStr(<<"C", "A">>)]

RowPartial ==
    [BlankRow EXCEPT !.name = CellNaN,
                     !.address = CellStr(<<"E", "l", "m", " ", "S", "t", ",", " ", "A", "d", "a">>),
                     !.lat = RawStr(<<"4", "0", ".", "0">>), !.lon = RawStr(<<"-", "7", "3", ".", "5", "0">>)]

RowBadLat ==
    [BlankRow EXCEPT !.address = CellNaN,
                     !.lat = RawStr(<<"a", "b", "c">>), !.lon = RawFloat(LonW),
                     !.county = CellStr(<<"K", "e", "r", "n">>)]

RowNoLat ==
    [BlankRow EXCEPT !.name = CellStr(<<"R", "y", "e", " ", "F", "D">>),
                     !.address = CellStr(<<"N", "o", " ", "a", "d", "d", "r", "e", "s", "s", " ", "t", "a", "g", "s">>),
                     !.lat = RawNone, !.lon = RawFloat(LonW)]

RowEmpty ==
    [BlankRow EXCEPT !.address = CellStr(<<>>),
                     !.lat = RawFloat(Lat7), !.lon = RawFloat(Zero)]

RowPointComplete ==
    [BlankRow EXCEPT !.address = CellStr(<<"1", "2", " ", "E", "l", "m", " ", "S", "t", ",", " ", "A", "d", "a", ",", " ", "C", "A", " ", "9", "0", "2", "1", "0">>),
                     !.geometry = Point(Lat40, LonW)]

RowPointNoTags ==
    [BlankRow EXCEPT !.name = CellStr(<<"E", "l", "y", " ", "F", "D">>),
                     !.address = CellStr(<<"N", "o", " ", "a", "d", "d", "r", "e", "s", "s", " ", "t", "a", "g", "s">>),
                     !.geometry = Point(Lat7, Zero)]

RowNoPoint ==
    [BlankRow EXCEPT !.address = CellStr(<<"E", "l", "m", " ", "S", "t", ",", " ", "A", "d", "a">>)]

\* input files
Frames ==
    { <<RowComplete, RowNoTags, RowPartial>>,
      <<RowPointComplete, RowPointNoTags, RowNoPoint>>,
      <<RowBadLat, RowNoTags>>,
      <<RowNoLat, RowEmpty>>,
      <<RowComplete>> }

\* main exits when both --only-missing and --only-incomplete are given
OptionSets ==
    { Options(m, i, f, c) : m \in BOOLEAN, i \in BOOLEAN, f \in BOOLEAN, c \in BOOLEAN }
    \ { Options(TRUE, TRUE, f, c) : f \in BOOLEAN, c \in BOOLEAN }

\* what the reverse provider may do for a row
ReverseOutcomes ==
    { Location(AddrFull), Location(AddrTown), Location(NoAddr), Falsy,
      Raises("GeocoderTimedOut"), Raises("ValueError") }

\* what the forward provider may do for a row
ForwardOutcomes == { Location(AddrFound), Falsy, Raises("GeocoderUnavailable") }

(***************************************************************************)
(* A run of address_cleanup.py on one input file                           *)
(***************************************************************************)

BatchInit ==
    /\ file = Absent
    /\ tmp = Absent
    /\ cache = NoCache
    /\ pc = "off"
    /\ calls = 0
    /\ op = NoCall
    /\ ret = NoRet
    /\ frame \in Frames
    /\ opts \in OptionSets
    /\ columns = {}
    /\ bpc = "start"
    /\ df = <<>>
    /\ targets = <<>>
    /\ corrected_addresses = <<>>
    /\ addr_cache = EmptyDict
    /\ summary = NoSummary
    /\ disk = NoDisk
    /\ plog = <<>>
    /\ runs = 0
    /\ NoDirectory
    /\ NoRequests
    /\ NoDownload

\* main: df = load_input(input_path); process_dataframe up to its loop:
\* no targeted row returns at once; without the coordinate columns
\* ensure_lat_lon derives them from the geometry or exits
BatchStart ==
    /\ bpc = "start"
    /\ \E mask \in {build_target_mask(frame, opts.only_missing, opts.only_incomplete)},
          e \in {ensure_lat_lon(frame, InputColumns(frame, opts.lat_lon_columns))} :
           /\ summary' = [target_count |-> Cardinality(mask), corrected_count |-> 0]
           /\ IF mask = {} \/ e.raised # "none"
              THEN /\ bpc' = IF mask = {} THEN "write" ELSE "exit"
                   /\ targets' = <<>>
                   /\ df' = frame
                   /\ columns' = InputColumns(frame, opts.lat_lon_columns)
              ELSE /\ bpc' = "rows"
                   /\ targets' = InOrder(mask)
                   /\ df' = e.rows
                   /\ columns' = e.columns
    /\ corrected_addresses' = <<>>
    /\ UNCHANGED <<frame, opts, addr_cache, disk, plog, runs>>
    /\ UNCHANGED cacheVars
    /\ UNCHANGED <<dirVars, clockVars, downloadVars>>

\* one round of the loop; an outcome is drawn for a provider only when the
\* round invokes it, and is kept with the locals of the round
RowRound(rev_out, fwd_out) ==
    /\ bpc = "rows"
    /\ Len(targets) > 0
    /\ \E r \in {EnrichRow(targets[1], df[targets[1]], rev_out, fwd_out, addr_cache,
                           opts.enable_forward_search,
                           {"lat", "lon"} \subseteq columns)} :
           /\ r.rev_called <=> rev_out # NotCalled
           /\ r.fwd_called <=> fwd_out # NotCalled
           /\ IF r.raised # "none"
              THEN /\ bpc' = "raised"
                   /\ UNCHANGED <<targets, corrected_addresses>>
              ELSE /\ bpc' = "rows"
                   /\ targets' = Tail(targets)
                   /\ corrected_addresses' =
                          Append(corrected_addresses,
                                 [r EXCEPT !.cache = EmptyDict]
                                     @@ [rev_out |-> rev_out, fwd_out |-> fwd_out])
           /\ addr_cache' = r.cache
           /\ plog' = IF r.rev_called THEN Append(plog, r.key) ELSE plog
    /\ UNCHANGED <<frame, opts, columns, df, summary, disk, runs>>
    /\ UNCHANGED cacheVars
    /\ UNCHANGED <<dirVars, downloadVars>>

\* a round of the loop, the time of its requests left aside
ProcessRow(rev_out, fwd_out) ==
    /\ RowRound(rev_out, fwd_out)
    /\ UNCHANGED clockVars

\* after the loop: the corrected addresses are assigned, the complete ones
\* counted, and process_dataframe returns
FinishRows ==
    /\ bpc = "rows"
    /\ Len(targets) = 0
    /\ \E rows \in {Assign(df, corrected_addresses)} :
           /\ df' = rows
           /\ summary' = [summary EXCEPT
                             !.corrected_count = CorrectedCount(rows, corrected_addresses)]
    /\ bpc' = "write"
    /\ UNCHANGED <<frame, opts, columns, targets, corrected_addresses, addr_cache, disk, plog, runs>>
    /\ UNCHANGED cacheVars
    /\ UNCHANGED <<dirVars, clockVars, downloadVars>>

\* main: write_output(df, output_path, input_path)
WriteOutput ==
    /\ bpc = "write"
    /\ disk' = [written |-> TRUE, rows |-> [i \in 1..Len(df) |-> df[i].address]]
    /\ bpc' = "done"
    /\ UNCHANGED <<frame, opts, columns, df, targets, corrected_addresses, addr_cache, summary,
                   plog, runs>>
    /\ UNCHANGED cacheVars
    /\ UNCHANGED <<dirVars, clockVars, downloadVars>>

\* The run is interrupted (Ctrl-C, kill, power loss) before it has written
\* its output; its memory is gone and the next run starts from the files
Interrupt ==
    /\ bpc \in {"rows", "write"}
    /\ runs < MaxRuns
    /\ runs' = runs + 1
    /\ bpc' = "start"
    /\ columns' = {}
    /\ df' = <<>>
    /\ targets' = <<>>
    /\ corrected_addresses' = <<>>
    /\ addr_cache' = EmptyDict
    /\ summary' = NoSummary
    /\ UNCHANGED <<frame, opts, disk, plog>>
    /\ UNCHANGED cacheVars
    /\ UNCHANGED <<dirVars, clockVars, downloadVars>>

BatchNext ==
    \/ BatchStart
    \/ \E rev_out \in ReverseOutcomes \cup {NotCalled},
          fwd_out \in ForwardOutcomes \cup {NotCalled} : ProcessRow(rev_out, fwd_out)
    \/ FinishRows
    \/ WriteOutput
    \/ Interrupt

BatchSpec == BatchInit /\ [][BatchNext]_vars


(***************************************************************************)
(* A run of address_cleanup.py in directory mode (--input-dir)             *)
(***************************************************************************)

\* a file of the directory: its rows and whether it has the address column
\* and the coordinate columns
InputFile(rows, address_column, lat_lon_columns) ==
    [rows |-> rows, address_column |-> address_column,
     lat_lon_columns |-> lat_lon_columns]

RowNoAddress == [RowNoTags EXCEPT !.address = CellAbsent]

InputFiles ==
    { InputFile(<<RowNoTags>>, TRUE, TRUE),
      InputFile(<<RowComplete, RowEmpty>>, TRUE, TRUE),
      InputFile(<<RowNoAddress>>, FALSE, TRUE),
      InputFile(<<RowNoTags>>, TRUE, FALSE),
      InputFile(<<RowPointNoTags>>, TRUE, FALSE) }

\* the sorted files of the input directory
Directories == { <<a, b>> : a \in InputFiles, b \in InputFiles }

DirInit ==
    /\ file = Absent
    /\ tmp = Absent
    /\ cache = NoCache
    /\ pc = "off"
    /\ calls = 0
    /\ op = NoCall
    /\ ret = NoRet
    /\ files \in Directories
    /\ fpos = 1
    /\ outputs = <<>>
    /\ frame = <<>>
    /\ opts \in { Options(FALSE, FALSE, f, TRUE) : f \in BOOLEAN }
    /\ columns = {}
    /\ bpc = "open"
    /\ df = <<>>
    /\ targets = <<>>
    /\ corrected_addresses = <<>>
    /\ addr_cache = EmptyDict
    /\ summary = NoSummary
    /\ disk = NoDisk
    /\ plog = <<>>
    /\ runs = 0
    /\ NoRequests
    /\ NoDownload

\* for path in files: df = load_input(path), and the first statement of
\* process_dataframe, which exits when the address column is missing
DirOpen ==
    /\ bpc = "open"
    /\ frame' = files[fpos].rows
    /\ opts' = [opts EXCEPT !.lat_lon_columns = files[fpos].lat_lon_columns]
    /\ bpc' = IF files[fpos].address_column THEN "start" ELSE "exit"
    /\ columns' = {}
    /\ df' = <<>>
    /\ targets' = <<>>
    /\ corrected_addresses' = <<>>
    /\ summary' = NoSummary
    /\ disk' = NoDisk
    /\ UNCHANGED <<addr_cache, plog, runs>>
    /\ UNCHANGED cacheVars
    /\ UNCHANGED <<dirVars, clockVars, downloadVars>>

\* after write_output: the totals are added and the loop takes the next
\* file, or main prints the summary and ends
DirNextFile ==
    /\ bpc = "done"
    /\ fpos > 0
    /\ outputs' = Append(outputs, [file |-> fpos, rows |-> disk.rows])
    /\ IF fpos < Len(files)
       THEN fpos' = fpos + 1 /\ bpc' = "open"
       ELSE fpos' = fpos /\ bpc' = "finished"
    /\ UNCHANGED <<frame, opts, columns, df, targets, corrected_addresses, addr_cache,
                   summary, disk, plog, runs, files>>
    /\ UNCHANGED cacheVars
    /\ UNCHANGED <<clockVars, downloadVars>>

DirNext ==
    \/ DirOpen
    \/ BatchStart
    \/ \E rev_out \in ReverseOutcomes \cup {NotCalled},
          fwd_out \in ForwardOutcomes \cup {NotCalled} : ProcessRow(rev_out, fwd_out)
    \/ FinishRows
    \/ WriteOutput
    \/ DirNextFile

DirSpec == DirInit /\ [][DirNext]_vars

(***************************************************************************)
(* The requests of a run and their times, in tenths of a second.  main     *)
(* wraps geolocator.reverse in one RateLimiter and geolocator.geocode in   *)
(* another; a RateLimiter lets a call through when min_delay_seconds have  *)
(* passed since the last call it let through, and sleeps until then.       *)
(***************************************************************************)

\* min_delay_seconds=1.1
MinDelay == 11

\* how long the service takes to answer a request
Durations == {2, 15}

\* RateLimiter.__call__: the time at which the limiter lets a call through
\* that arrives at time t
Acquire(limiter, t) ==
    IF last_call[limiter] < 0 THEN t
    ELSE MaxOf({t, last_call[limiter] + MinDelay})

\* a request sent at `at` and answered at `until`
Request(limiter, at, until) == [limiter |-> limiter, at |-> at, until |-> until]

\* the reverse request of a round, if it makes one
ReverseRequest(rev_called, d_rev) ==
    IF rev_called
    THEN <<Request("reverse", Acquire("reverse", now), Acquire("reverse", now) + d_rev)>>
    ELSE <<>>

\* the forward request of a round, if it makes one, arriving at time t
ForwardRequest(fwd_called, t, d_fwd) ==
    IF fwd_called
    THEN <<Request("forward", Acquire("forward", t), Acquire("forward", t) + d_fwd)>>
    ELSE <<>>

\* the time after the requests sent, or t without one
TimeAfter(sent, t) == IF Len(sent) = 0 THEN t ELSE sent[Len(sent)].until

\* the requests of a round: the reverse one, then the forward one
RoundRequests(rev_called, fwd_called, d_rev, d_fwd) ==
    With(ReverseRequest(rev_called, d_rev),
         LAMBDA rev : rev \o ForwardRequest(fwd_called, TimeAfter(rev, now), d_fwd))

\* the limiters' last_call after the requests sent
LastCallAfter(sent) ==
    [l \in {"reverse", "forward"} |->
        IF \E j \in 1..Len(sent) : sent[j].limiter = l
        THEN sent[CHOOSE j \in 1..Len(sent) : sent[j].limiter = l].at
        ELSE last_call[l]]

RateInit ==
    /\ file = Absent
    /\ tmp = Absent
    /\ cache = NoCache
    /\ pc = "off"
    /\ calls = 0
    /\ op = NoCall
    /\ ret = NoRet
    /\ frame \in Frames
    /\ opts \in { Options(FALSE, FALSE, f, TRUE) : f \in BOOLEAN }
    /\ columns = {}
    /\ bpc = "start"
    /\ df = <<>>
    /\ targets = <<>>
    /\ corrected_addresses = <<>>
    /\ addr_cache = EmptyDict
    /\ summary = NoSummary
    /\ disk = NoDisk
    /\ plog = <<>>
    /\ runs = 0
    /\ NoDirectory
    /\ NoRequests
    /\ NoDownload

\* a round of the loop with the requests it sends through the limiters; a
\* duration is drawn for a request only when the round sends it
RateRow(rev_out, fwd_out, d_rev, d_fwd) ==
    /\ RowRound(rev_out, fwd_out)
    /\ (rev_out = NotCalled) => d_rev = 2
    /\ (fwd_out = NotCalled) => d_fwd = 2
    /\ \E sent \in {RoundRequests(rev_out # NotCalled, fwd_out # NotCalled,
                                  d_rev, d_fwd)} :
           /\ requests' = requests \o sent
           /\ last_call' = LastCallAfter(sent)
           /\ now' = TimeAfter(sent, now)

RateNext ==
    \/ BatchStart
    \/ \E rev_out \in ReverseOutcomes \cup {NotCalled},
          fwd_out \in ForwardOutcomes \cup {NotCalled},
          d_rev \in Durations, d_fwd \in Durations :
           RateRow(rev_out, fwd_out, d_rev, d_fwd)
    \/ FinishRows
    \/ WriteOutput

RateSpec == RateInit /\ [][RateNext]_vars

(***************************************************************************)
(* Properties of the cache and of the lookup functions                     *)
(***************************************************************************)

\* the two calls name the same coordinate: their keys exist and are equal
SameCoordinate(a, b) ==
    /\ CacheKey(a.lat, a.lon).exc = "none"
    /\ CacheKey(b.lat, b.lon) = CacheKey(a.lat, a.lon)

\* a step that serves a call of reverse_geocode_address_cached
IsCachedLookupStep == pc = "idle" /\ op'.name = "reverse_cached"

\* C1: caching is idempotent.  A call of reverse_geocode_address_cached for
\* a coordinate that is not in the cache invokes the provider once and, for
\* every provider outcome, leaves the returned result in the cache; a call
\* that follows a completed call for the same coordinate does not invoke the
\* provider, returns the same GeocodeResult, and leaves the cache map and the
\* cache file as they are.
C1_CachingIsIdempotent ==
    [][ IsCachedLookupStep =>
          /\ ( /\ CacheKey(op'.lat, op'.lon).exc = "none"
               /\ CacheKey(op'.lat, op'.lon).key \notin DOMAIN cache.data )
             => /\ op'.called
                /\ calls' = calls + 1
                /\ ret'.raised = "none"
                /\ cache'.data = MapSet(cache.data, CacheKey(op'.lat, op'.lon).key,
                                        ret'.val)
          /\ ( /\ op.name = "reverse_cached"
               /\ ret.raised = "none"
               /\ SameCoordinate(op, op') )
             => /\ ~op'.called
                /\ calls' = calls
                /\ ret' = ret
                /\ cache' = cache
                /\ file' = file
                /\ tmp' = tmp
                /\ pc' = "idle" ]_vars

\* a second call for a coordinate has been served from the cache with the
\* address that the first, live call computed
C1_Witness ==
    /\ pc = "idle"
    /\ op.name = "reverse_cached"
    /\ ~op.called
    /\ calls = 1
    /\ ret.raised = "none"
    /\ ret.val.value = Some(<<"1", "2", ",", " ", "E", "l", "m", " ", "S", "t", ",", " ", "A", "d", "a", ",", " ", "C", "A", ",", " ", "9", "0", "2", "1", "0">>)

\* C2: write-through.  Whenever a set(coordinate, result) of a cache bound
\* to a path has completed, loading the cache file yields exactly the map
\* held in memory: every entry set so far and nothing else.
C2_WriteThrough ==
    ( /\ pc = "idle"
      /\ cache.bound
      /\ op.name = "reverse_cached"
      /\ op.called
      /\ ret.raised = "none" )
    => LoadFile(file) = [raised |-> "none", data |-> cache.data]

\* two coordinates have been set and both are in the file
C2_Witness ==
    /\ pc = "idle"
    /\ op.name = "reverse_cached"
    /\ op.called
    /\ Cardinality(DOMAIN cache.data) = 2
    /\ file.kind = "text"
    /\ Len(file.items) = 2

\* C3: save is atomic.  Every step either leaves the cache file as it is or
\* is the single replace that puts the complete serialization of the map in
\* its place; the cache file is never a partially written one, whatever
\* step the process stops at.
C3_SaveIsAtomic ==
    [][ /\ \/ file' = file
           \/ pc = "save_replace" /\ file' = Serialize(cache.data)
        /\ file'.kind # "partial" ]_vars

\* the process stopped while the temporary file was half written, and the
\* cache file still holds a complete serialization
C3_Witness ==
    /\ pc = "start"
    /\ tmp = Partial
    /\ file.kind = "text"
    /\ file.root = "object"
    /\ calls > 0

\* C5: load never raises.  As stated: after load(path), whatever the file
\* holds, no exception has been raised and there is a cache bound to path.
C5_LoadNeverRaises ==
    op.name = "load" => (ret.raised = "none" /\ cache.live /\ cache.bound)

\* C6: the cache file round-trips.  A file written by save() loads without
\* an error, saving the loaded map gives the same file (the same keys in the
\* same order with the same value, error_code and error_message), and
\* loading that file again gives the same map.
C6_FileRoundTrip ==
    file.kind # "absent" =>
        /\ LoadFile(file).raised = "none"
        /\ Serialize(LoadFile(file).data) = file
        /\ LoadFile(Serialize(LoadFile(file).data)) = LoadFile(file)

\* a file of two entries, one of them an error, has been loaded and saved
C6_Witness ==
    /\ pc = "idle"
    /\ op.name = "save"
    /\ Len(file.items) = 2
    /\ \E i \in 1..2 : file.items[i].payload.error_code.some
    /\ Serialize(cache.data) = file

\* exactly one of value and error_code is present
ExactlyOne(r) == r.value.some # (r.error_code # "None")

\* C7: as stated, every GeocodeResult returned by a lookup or held in a
\* cache has exactly one of value and error_code.
C7_ExactlyOneOfValueAndError ==
    /\ (op.name \in {"reverse_cached", "reverse", "geocode_place"} /\ ret.raised = "none")
       => ExactlyOne(ret.val)
    /\ \A k \in DOMAIN cache.data : ExactlyOne(cache.data[k])

\* none of house_number, road, city/town/village, state, postcode is there
NoAddressFields(addr) ==
    \A f \in {"house_number", "road", "city", "town", "village", "state", "postcode"} :
        ~addr[f].some \/ addr[f].v = <<>>

\* The error kind that the taxonomy assigns to a served call: "None" for a
\* call that succeeds
TaxonomyKind(call) ==
    IF call.name = "geocode_place" /\ (~call.q.some \/ call.q.v = <<>>) THEN "EMPTY_QUERY"
    ELSE IF call.out.t = "raise"
    THEN IF call.out.exc = "GeocoderTimedOut" THEN "TIMEOUT"
         ELSE IF call.out.exc = "GeocoderUnavailable" THEN "SERVICE_UNAVAILABLE"
         ELSE IF call.out.exc \in {"GeocoderServiceError", "GeocoderQuotaExceeded"}
         THEN "SERVICE_ERROR"
         ELSE "UNEXPECTED_ERROR"
    ELSE IF call.out.t \in {"falsy", "noraw"} THEN "NO_RESULTS"
    ELSE IF call.name = "reverse"
    THEN IF call.out.nonstr THEN "UNEXPECTED_ERROR"
         ELSE IF NoAddressFields(call.out.addr) THEN "INCOMPLETE_ADDRESS"
         ELSE "None"
    ELSE IF ~call.out.coords THEN "UNEXPECTED_ERROR"
    ELSE "None"

\* C8: geocode_place and reverse_geocode_address never let an exception of
\* the provider call escape, and every outcome gets the one kind of the
\* taxonomy: an empty query is empty-query without a provider call, a falsy
\* or raw-less location no-results, a location without address fields
\* incomplete-address, a timeout timeout, an unavailable service
\* service-unavailable, another provider error service-error, any other
\* exception unexpected-error.
C8_ClosedTaxonomy ==
    ( /\ op.name \in {"geocode_place", "reverse"}
      /\ op.called \/ op.name = "geocode_place" )
    => /\ ret.raised = "none"
       /\ ret.val.error_code = TaxonomyKind(op)
       /\ (ret.val.error_code = "EMPTY_QUERY" <=> ~op.called)
       /\ (ret.val.error_code # "None" => ~ret.val.value.some)

\* a provider error that is neither a timeout nor an outage came back as
\* service-error
C8_Witness ==
    /\ op.name = "reverse"
    /\ op.called
    /\ op.out = Raises("GeocoderQuotaExceeded")
    /\ ret.val.error_code = "SERVICE_ERROR"

\* lat or lon is absent or cannot be converted to a float
Unparseable(call) ==
    \/ call.lat.t = "none"
    \/ call.lon.t = "none"
    \/ ToFloat(call.lat).exc # "none"
    \/ ToFloat(call.lon).exc # "none"

\* C9: as stated, the cached reverse lookup of an absent or unparseable
\* coordinate returns missing-lat-lon without raising and without invoking
\* the provider.
C9_UnparseableIsMissingLatLon ==
    (op.name = "reverse_cached" /\ Unparseable(op))
    => /\ ret.raised = "none"
       /\ ret.val.error_code = "MISSING_LAT_LON"
       /\ ~op.called

(***************************************************************************)
(* Properties of a run of address_cleanup.py                               *)
(***************************************************************************)

\* the coordinates in the provider's log
Asked == {plog[i] : i \in 1..Len(plog)}

\* C4: as stated, the results of the live lookups are not lost when a run
\* is interrupted: the address of every coordinate the provider was asked
\* for is held by the running process or is in the output on disk, and no
\* run asks the provider for a coordinate that was resolved before.
C4_InterruptedRunKeepsResults ==
    /\ \A k \in Asked : k \in DOMAIN addr_cache \/ disk.written
    /\ \A i, j \in 1..Len(plog) : i # j => plog[i] # plog[j]

\* the tags of the sentinel strings
SentinelTags ==
    { <<"N", "o", " ", "a", "d", "d", "r", "e", "s", "s", " ", "f", "o", "u", "n", "d">>, <<"A", "d", "d", "r", "e", "s", "s", " ", "f", "o", "u", "n", "d", " ", "b", "u", "t", " ", "i", "n", "c", "o", "m", "p", "l", "e", "t", "e">>, <<"L", "o", "o", "k", "u", "p", " ", "f", "a", "i", "l", "e", "d">>,
      <<"E", "r", "r", "o", "r", " ", "d", "u", "r", "i", "n", "g", " ", "l", "o", "o", "k", "u", "p">>, <<"M", "i", "s", "s", "i", "n", "g", " ", "l", "a", "t", "/", "l", "o", "n">> }

IsSentinel(text) == \E t \in SentinelTags : StartsWith(text, t)

\* the lookups of a visited row failed: the reverse attempt gave nothing or
\* a sentinel, and the forward search gave nothing
LookupsFailed(e) ==
    /\ ~e.reverse_suggestion.some \/ IsSentinel(e.reverse_suggestion.v)
    /\ ~e.forward_suggestion.some

FieldValues(text) == { None, Some(<<>>), Some(text) }

\* a field of the payload: missing or the given text
FieldOrNone(text) == { None, Some(text) }

\* location.raw["address"] as the provider may fill it
Payloads ==
    { [house_number |-> h, road |-> r, city |-> c, town |-> t, village |-> v,
       hamlet |-> m, state |-> s, postcode |-> z] :
        h \in FieldValues(<<"1", "2">>), r \in FieldValues(<<"E", "l", "m", " ", "S", "t">>),
        c \in FieldValues(<<"A", "d", "a">>), t \in FieldOrNone(<<"R", "y", "e">>),
        v \in FieldOrNone(<<"E", "l", "y">>), m \in FieldOrNone(<<"L", "e", "e">>),
        s \in FieldValues(<<"C", "A">>), z \in FieldOrNone(<<"9", "0", "2", "1", "0">>) }

FormatInit ==
    /\ file = Absent
    /\ tmp = Absent
    /\ cache = NoCache
    /\ pc = "off"
    /\ calls = 0
    /\ op \in { Call("none", RawFloat(Lat40), RawFloat(LonW), None, Location(a), FALSE) :
                  a \in Payloads }
    /\ ret = NoRet
    /\ NoBatch
    /\ NoDirectory
    /\ NoRequests
    /\ NoDownload

\* reverse_geocode_address(lat, lon, geocode) with a provider that returns
\* the payload
FormatReverse ==
    /\ op.name = "none"
    /\ op' = [op EXCEPT !.name = "reverse", !.called = TRUE]
    /\ ret' = reverse_geocode_address(op.lat, op.lon, op.out)
    /\ calls' = calls + 1
    /\ UNCHANGED <<file, tmp, cache, pc>>
    /\ UNCHANGED batchVars
    /\ UNCHANGED <<dirVars, clockVars, downloadVars>>

\* reverse_geocode(lat, lon, geocode, cache) with an empty cache and a
\* provider that returns the payload
FormatBuild ==
    /\ op.name = "none"
    /\ \E r \in {reverse_geocode(op.lat, op.lon, op.out, addr_cache)} :
           /\ op' = [op EXCEPT !.name = "reverse_geocode", !.called = r.called]
           /\ ret' = [raised |-> r.raised, val |-> r.val]
           /\ addr_cache' = r.cache
    /\ calls' = calls + 1
    /\ UNCHANGED <<file, tmp, cache, pc>>
    /\ UNCHANGED <<frame, opts, columns, bpc, df, targets, corrected_addresses, summary, disk,
                   plog, runs>>
    /\ UNCHANGED <<dirVars, clockVars, downloadVars>>

FormatNext == FormatReverse \/ FormatBuild

FormatSpec == FormatInit /\ [][FormatNext]_vars

(***************************************************************************)
(* ensure_complete_addresses.py: its own STATE_ZIP_RE, which allows only   *)
(* blanks between the state and the ZIP, and its process_dataframe.        *)
(* build_address, reverse_geocode and write_output of the script are the   *)
(* same text as in address_utils.py.                                       *)
(***************************************************************************)

\* \s+ of the script's STATE_ZIP_RE
EnsureIsStateZipGap(sep) ==
    /\ Len(sep) >= 1
    /\ \A i \in 1..Len(sep) : IsSpace(sep[i])

\* the script's STATE_ZIP_RE matches from position i
EnsureStateZipAt(s, i) ==
    /\ i + 1 <= Len(s)
    /\ IsUpper(s[i])
    /\ IsUpper(s[i + 1])
    /\ WordBoundary(s, i)
    /\ \E j \in (i + 3)..Len(s) : EnsureIsStateZipGap(SubSeq(s, i + 2, j - 1)) /\ ZipAt(s, j)

\* STATE_ZIP_RE.search(s).start() as a 1-based position, 0 without a match
EnsureStateZipSearch(s) ==
    With({i \in 1..Len(s) : EnsureStateZipAt(s, i)},
         LAMBDA hits : IF hits = {} THEN 0 ELSE MinOf(hits))

\* address_is_complete of ensure_complete_addresses.py
ensure_address_is_complete(address) ==
    IF ~address.some THEN FALSE
    ELSE With(Strip(address.v),
              LAMBDA a : /\ Len(a) > 0
                         /\ CompleteFrom(a, EnsureStateZipSearch(a),
                                         Strip(BeforeFirstComma(a))))

\* invalid_mask: the indexes of the rows whose address is not complete
EnsureInvalidMask(rows) ==
    {i \in 1..Len(rows) : ~ensure_address_is_complete(Some(StrOf(rows[i].address)))}

\* one round of the loop of the script's process_dataframe: a row without
\* coordinates gets "Missing lat/lon", any other row what reverse_geocode
\* returns; nothing catches what reverse_geocode raises
EnsureRowResult(idx, row, rev_out, cache_dict) ==
    IF ~NotNaRaw(row.lat) \/ ~NotNaRaw(row.lon)
    THEN [raised |-> "none", idx |-> idx, corrected |-> MissingLatLon,
          rev_called |-> FALSE, key |-> <<Zero, Zero>>, cache |-> cache_dict]
    ELSE With(reverse_geocode(row.lat, row.lon, rev_out, cache_dict),
              LAMBDA r : [raised |-> r.raised, idx |-> idx, corrected |-> r.val,
                          rev_called |-> r.called, key |-> r.key, cache |-> r.cache])

\* corrected_count of the script: the corrected rows whose address is
\* complete
EnsureCorrectedCount(rows, done) ==
    Cardinality({j \in 1..Len(done) :
                    ensure_address_is_complete(Some(StrOf(rows[done[j].idx].address)))})

\* input files: those of address_cleanup.py, and one whose two rows are
\* incomplete and lie at different coordinates
EnsureFrames == Frames \cup { <<RowNoTags, RowEmpty>> }

\* the script has no options but the column names
EnsureOptionSets == { Options(FALSE, FALSE, FALSE, c) : c \in BOOLEAN }

EnsureInit ==
    /\ file = Absent
    /\ tmp = Absent
    /\ cache = NoCache
    /\ pc = "off"
    /\ calls = 0
    /\ op = NoCall
    /\ ret = NoRet
    /\ frame \in EnsureFrames
    /\ opts \in EnsureOptionSets
    /\ columns = {}
    /\ bpc = "start"
    /\ df = <<>>
    /\ targets = <<>>
    /\ corrected_addresses = <<>>
    /\ addr_cache = EmptyDict
    /\ summary = NoSummary
    /\ disk = NoDisk
    /\ plog = <<>>
    /\ runs = 0
    /\ NoDirectory
    /\ NoRequests
    /\ NoDownload

\* ensure_lat_lon of ensure_complete_addresses.py, the same function
EnsureLatLon(rows, cols) == ensure_lat_lon(rows, cols)

\* main: df = load_input(input_path); process_dataframe up to its loop:
\* ensure_lat_lon exits without the coordinate columns, no invalid row
\* returns at once
EnsureStart ==
    /\ bpc = "start"
    /\ \E mask \in {EnsureInvalidMask(frame)},
          e \in {EnsureLatLon(frame, InputColumns(frame, opts.lat_lon_columns))} :
           /\ df' = e.rows
           /\ columns' = e.columns
           /\ IF e.raised # "none"
              THEN bpc' = "exit" /\ targets' = <<>> /\ summary' = NoSummary
              ELSE /\ summary' = [target_count |-> Cardinality(mask), corrected_count |-> 0]
                   /\ IF mask = {} THEN bpc' = "write" /\ targets' = <<>>
                      ELSE bpc' = "rows" /\ targets' = InOrder(mask)
    /\ corrected_addresses' = <<>>
    /\ UNCHANGED <<frame, opts, addr_cache, disk, plog, runs>>
    /\ UNCHANGED cacheVars
    /\ UNCHANGED <<dirVars, clockVars, downloadVars>>

\* one round of the loop; an outcome is drawn for the provider only when
\* the round invokes it
EnsureRow(rev_out) ==
    /\ bpc = "rows"
    /\ Len(targets) > 0
    /\ \E r \in {EnsureRowResult(targets[1], df[targets[1]], rev_out, addr_cache)} :
           /\ r.rev_called <=> rev_out # NotCalled
           /\ IF r.raised # "none"
              THEN /\ bpc' = "raised"
                   /\ UNCHANGED <<targets, corrected_addresses>>
              ELSE /\ bpc' = "rows"
                   /\ targets' = Tail(targets)
                   /\ corrected_addresses' =
                          Append(corrected_addresses,
                                 [r EXCEPT !.cache = EmptyDict] @@ [rev_out |-> rev_out])
           /\ addr_cache' = r.cache
           /\ plog' = IF r.rev_called THEN Append(plog, r.key) ELSE plog
    /\ UNCHANGED <<frame, opts, columns, df, summary, disk, runs>>
    /\ UNCHANGED cacheVars
    /\ UNCHANGED <<dirVars, clockVars, downloadVars>>

\* after the loop: df.loc[invalid_mask, address_column] = corrected_addresses,
\* the complete ones are counted, and process_dataframe returns
EnsureFinish ==
    /\ bpc = "rows"
    /\ Len(targets) = 0
    /\ \E rows \in {Assign(df, corrected_addresses)} :
           /\ df' = rows
           /\ summary' = [summary EXCEPT
                             !.corrected_count =
                                 EnsureCorrectedCount(rows, corrected_addresses)]
    /\ bpc' = "write"
    /\ UNCHANGED <<frame, opts, columns, targets, corrected_addresses, addr_cache, disk, plog, runs>>
    /\ UNCHANGED cacheVars
    /\ UNCHANGED <<dirVars, clockVars, downloadVars>>

EnsureNext ==
    \/ EnsureStart
    \/ \E rev_out \in Outcomes \cup {NotCalled} : EnsureRow(rev_out)
    \/ EnsureFinish
    \/ WriteOutput

EnsureSpec == EnsureInit /\ [][EnsureNext]_vars

(***************************************************************************)
(* The classifiers applied to one value: address_is_complete of            *)
(* address_utils.py and of ensure_complete_addresses.py.  The value is in  *)
(* op.q, None standing for None and every other value that is no str;      *)
(* ret.val is the boolean returned.                                        *)
(***************************************************************************)

Streets == { <<"1", " ", "E", "l", "m">>, <<"E", "l", "m">>, <<"1", "2">>, <<>> }

\* the text between the street and the state: nothing, a city, a number
Cities == { <<>>, <<",", " ", "A", "d", "a">>, <<",", " ", "7">> }

\* what separates the state from the text before it
Joints == { <<",", " ">>, <<" ">> }

States == { <<"C", "A">>, <<"C", "a">>, <<"X", "C", "A">> }

\* what separates the state from the ZIP
Gaps == { <<" ">>, <<",", " ">>, <<",">>, <<" ", ",">>, <<" ", " ">>, <<" ", ",", " ">>, <<",", " ", ",", " ">> }

Zips == { <<"9", "0", "2", "1", "0">>, <<"9", "0", "2", "1">>, <<"9", "0", "2", "1", "0", "-", "1", "2", "3", "4">>, <<"9", "0", "2", "1", "0", "1">> }

Tails == { <<>>, <<" ", "U", "S">> }

\* addresses put together from the parts
ComposedAddresses ==
    { s \o c \o j \o st \o g \o z \o t :
        s \in Streets, c \in Cities, j \in Joints, st \in States, g \in Gaps,
        z \in Zips, t \in Tails }

\* the values of the repository's tests and of the spec, blank strings,
\* padded strings, and strings with two state/ZIP tokens
ListedAddresses ==
    { <<"1", "2", "3", " ", "M", "a", "i", "n", " ", "S", "t", ",", " ", "S", "p", "r", "i", "n", "g", "f", "i", "e", "l", "d", ",", " ", "C", "A", " ", "9", "0", "2", "1", "0">>,
      <<"1", "2", "3", " ", "M", "a", "i", "n", " ", "S", "t", ",", " ", "S", "p", "r", "i", "n", "g", "f", "i", "e", "l", "d", ",", " ", "C", "A", ",", " ", "9", "0", "2", "1", "0">>,
      <<"M", "a", "i", "n", " ", "S", "t", ",", " ", "S", "p", "r", "i", "n", "g", "f", "i", "e", "l", "d", ",", " ", "C", "A", " ", "9", "0", "2", "1", "0">>,
      <<"1", "2", "3", " ", "M", "a", "i", "n", " ", "S", "t", ",", " ", "S", "p", "r", "i", "n", "g", "f", "i", "e", "l", "d", ",", " ", "C", "A">>,
      <<"1", "2", "3", " ", "M", "a", "i", "n", " ", "S", "t", ",", " ", "C", "A", " ", "9", "0", "2", "1", "0">>,
      <<"1", "2", "3", ",", " ", "M", "a", "i", "n", " ", "S", "t", ",", " ", "S", "p", "r", "i", "n", "g", "f", "i", "e", "l", "d", ",", " ", "C", "A", ",", " ", "9", "0", "2", "1", "0">>,
      <<>>, <<" ", " ", " ">>,
      <<" ", " ", "1", " ", "E", "l", "m", ",", " ", "A", "d", "a", ",", " ", "C", "A", " ", "9", "0", "2", "1", "0", " ">>,
      <<"C", "A", " ", "9", "0", "2", "1", "0", ",", " ", "1", " ", "E", "l", "m", ",", " ", "A", "d", "a", ",", " ", "N", "Y", " ", "1", "0", "0", "0", "1">>,
      <<"1", " ", "E", "l", "m", ",", " ", "A", "d", "a", ",", " ", "N", "Y", " ", "1", "0", "0", "0", "1", ",", " ", "C", "A", " ", "9", "0", "2", "1", "0">>,
      <<"1", " ", "C", "A", ",", " ", "9", "0", "2", "1", "0", " ", "E", "l", "m", ",", " ", "N", "Y", " ", "1", "0", "0", "0", "1">>,
      <<"1", "2", " ", "C", "A", ",", " ", "9", "0", "2", "1", "0", " ", "E", "l", "m", " ", "S", "t", ",", " ", "A", "d", "a", ",", " ", "C", "A", " ", "9", "0", "2", "1", "0">> }

ClassifierInputs ==
    {None} \cup {Some(a) : a \in ComposedAddresses \cup ListedAddresses}

ClassifyInit ==
    /\ file = Absent
    /\ tmp = Absent
    /\ cache = NoCache
    /\ pc = "off"
    /\ calls = 0
    /\ op \in { Call("none", RawNone, RawNone, a, NotCalled, FALSE) : a \in ClassifierInputs }
    /\ ret = NoRet
    /\ NoBatch
    /\ NoDirectory
    /\ NoRequests
    /\ NoDownload

\* address_is_complete(address), address_utils.py
Classify ==
    /\ op.name = "none"
    /\ op' = [op EXCEPT !.name = "address_is_complete"]
    /\ ret' = [raised |-> "none", val |-> address_is_complete(op.q)]
    /\ UNCHANGED <<file, tmp, cache, pc, calls>>
    /\ UNCHANGED batchVars
    /\ UNCHANGED <<dirVars, clockVars, downloadVars>>

\* address_is_complete(address), ensure_complete_addresses.py
EnsureClassify ==
    /\ op.name = "none"
    /\ op' = [op EXCEPT !.name = "ensure_address_is_complete"]
    /\ ret' = [raised |-> "none", val |-> ensure_address_is_complete(op.q)]
    /\ UNCHANGED <<file, tmp, cache, pc, calls>>
    /\ UNCHANGED batchVars
    /\ UNCHANGED <<dirVars, clockVars, downloadVars>>

ClassifyNext == Classify \/ EnsureClassify

ClassifySpec == ClassifyInit /\ [][ClassifyNext]_vars

(***************************************************************************)
(* build_search_query applied to one row, with the existing address that   *)
(* process_dataframe passes for it.  The row is frame[1]; ret.val is the   *)
(* query or None.                                                          *)
(***************************************************************************)

QueryRows ==
    { [BlankRow EXCEPT !.name = n, !.address = a, !.city = c, !.town = t,
                       !.state = s, !.postcode = z, !.zip = zz, !.county = k] :
        n \in {CellAbsent, CellNaN, CellStr(<<"A", "d", "a", " ", "F", "D">>), CellStr(<<"A", "d", "a">>), CellStr(<<" ">>)},
        a \in {CellAbsent, CellNaN, CellStr(<<"N", "o", " ", "a", "d", "d", "r", "e", "s", "s", " ", "t", "a", "g", "s">>), CellStr(<<"E", "l", "m", " ", "S", "t", ",", " ", "A", "d", "a">>),
               CellStr(<<"A", "d", "a">>)},
        c \in {CellAbsent, CellNaN, CellStr(<<" ", "A", "d", "a", " ">>)},
        t \in {CellAbsent, CellStr(<<"A", "d", "a">>), CellStr(<<"R", "y", "e">>)},
        s \in {CellAbsent, CellStr(<<"C", "A">>)},
        z \in {CellAbsent, CellStr(<<"9", "0", "2", "1", "0">>)},
        zz \in {CellAbsent, CellStr(<<"9", "0", "2", "1", "0">>)},
        k \in {CellAbsent, CellStr(<<>>), CellStr(<<"K", "e", "r", "n">>)} }

QueryInit ==
    /\ file = Absent
    /\ tmp = Absent
    /\ cache = NoCache
    /\ pc = "off"
    /\ calls = 0
    /\ op = NoCall
    /\ ret = NoRet
    /\ frame \in { <<row>> : row \in QueryRows }
    /\ opts = Options(FALSE, FALSE, TRUE, TRUE)
    /\ columns = {}
    /\ bpc = "off"
    /\ df = <<>>
    /\ targets = <<>>
    /\ corrected_addresses = <<>>
    /\ addr_cache = EmptyDict
    /\ summary = NoSummary
    /\ disk = NoDisk
    /\ plog = <<>>
    /\ runs = 0
    /\ NoDirectory
    /\ NoRequests
    /\ NoDownload

\* existing = str(row.get(address_column) or "").strip();
\* query = build_search_query(row, existing)
BuildQuery ==
    /\ op.name = "none"
    /\ op' = [op EXCEPT !.name = "build_search_query",
                        !.q = Some(Strip(StrOrEmpty(frame[1].address)))]
    /\ ret' = [raised |-> "none",
               val |-> build_search_query(frame[1], Strip(StrOrEmpty(frame[1].address)))]
    /\ UNCHANGED <<file, tmp, cache, pc, calls>>
    /\ UNCHANGED batchVars
    /\ UNCHANGED <<dirVars, clockVars, downloadVars>>

QueryNext == BuildQuery

QuerySpec == QueryInit /\ [][QueryNext]_vars

(***************************************************************************)
(* Properties of the resolution of a row (process_dataframe)               *)
(***************************************************************************)

\* the rows visited so far, with the locals of their rounds
Visited == {corrected_addresses[i] : i \in 1..Len(corrected_addresses)}

\* the row of a round has both coordinates
HasCoordinates(e) == NotNaRaw(df[e.idx].lat) /\ NotNaRaw(df[e.idx].lon)

\* the reverse provider was invoked for the row and returned no location
NoLocationReturned(e) == e.rev_called /\ e.rev_out.t \in {"falsy", "noraw"}

\* C11: as stated, in a non-interactive run a targeted row with coordinates
\* whose reverse provider call returns no location, and for which there is
\* no forward result, keeps its original address (also a placeholder such
\* as "No address tags"): in memory and in the output written.
C11_NoLocationKeepsOriginal ==
    \A e \in Visited :
        (HasCoordinates(e) /\ NoLocationReturned(e) /\ ~IsTruthy(e.forward_suggestion))
        => /\ e.corrected = e.existing
           /\ bpc = "done" => disk.rows[e.idx] = frame[e.idx].address

\* C12: as stated, the resolved address of a targeted row is the forward or
\* reverse suggestion if there is one, else the existing address if there
\* is one, and "Missing lat/lon" only for a row that has no coordinate, no
\* suggestion and no existing address.
C12_ResolutionPriority ==
    \A e \in Visited :
        /\ IsTruthy(e.suggestion) => e.corrected = e.suggestion.v
        /\ (~IsTruthy(e.suggestion) /\ Len(e.existing) > 0) => e.corrected = e.existing
        /\ e.corrected = MissingLatLon
           => (~HasCoordinates(e) /\ ~IsTruthy(e.suggestion) /\ Len(e.existing) = 0)

\* the reverse attempt of a round gave an address that is complete
ReverseUsable(e) == e.reverse_suggestion.some /\ address_is_complete(e.reverse_suggestion)

\* C13: the forward provider is invoked for a row only if the forward
\* search is enabled and the reverse attempt gave nothing or something that
\* is not a complete address; with a complete address from the reverse
\* attempt, or with the forward search disabled, no forward call is made.
C13_ForwardOnlyAfterFailedReverse ==
    \A e \in Visited :
        /\ (e.fwd_called \/ e.fwd_out # NotCalled)
           => (opts.enable_forward_search /\ ~ReverseUsable(e))
        /\ (~opts.enable_forward_search \/ ReverseUsable(e))
           => (~e.fwd_called /\ e.fwd_out = NotCalled /\ ~e.forward_suggestion.some)

\* with the forward search enabled, the forward provider was invoked for a
\* row whose reverse attempt failed and not for a row whose reverse attempt
\* gave a complete address
C13_Witness ==
    /\ opts.enable_forward_search
    /\ \E e \in Visited : e.fwd_called /\ IsSentinel(e.reverse_suggestion.v)
    /\ \E e \in Visited : e.rev_called /\ ReverseUsable(e) /\ ~e.fwd_called

\* C14: when the forward attempt yields a value the suggestion is that
\* value and its source is "forward search"; otherwise, with a reverse
\* suggestion, the suggestion is the reverse one and its source is "reverse
\* geocode"; there is no source exactly when there is no suggestion.
C14_Provenance ==
    \A e \in Visited :
        /\ IsTruthy(e.forward_suggestion)
           => (e.suggestion = e.forward_suggestion
               /\ e.suggestion_source = "forward search")
        /\ (~IsTruthy(e.forward_suggestion) /\ IsTruthy(e.reverse_suggestion))
           => (e.suggestion = e.reverse_suggestion
               /\ e.suggestion_source = "reverse geocode")
        /\ e.suggestion_source = "None" <=> ~IsTruthy(e.suggestion)
        /\ e.suggestion_source \in {"forward search", "reverse geocode", "None"}

\* a run has visited a row resolved by the forward search after a failed
\* reverse lookup, and a row resolved by the reverse lookup
C14_Witness ==
    /\ \E e \in Visited : /\ e.suggestion_source = "forward search"
                          /\ e.rev_called
                          /\ e.suggestion # e.reverse_suggestion
    /\ \E e \in Visited : e.suggestion_source = "reverse geocode"

(***************************************************************************)
(* Properties of the address formatters                                    *)
(***************************************************************************)

\* text.split(sep)
RECURSIVE SplitOn(_, _)
SplitOn(s, sep) ==
    IF Find(s, sep) = 0 THEN <<s>>
    ELSE <<Slice(s, 1, Find(s, sep) - 1)>>
         \o SplitOn(Slice(s, Find(s, sep) + Len(sep), Len(s)), sep)

\* the payload of the call being served
Payload == op.out.addr

\* the field is present: not missing and not empty
Present(field) == field.some /\ field.v # <<>>

\* the locality of C17: city, else town, else village
Locality3 ==
    IF Present(Payload.city) THEN Payload.city
    ELSE IF Present(Payload.town) THEN Payload.town
    ELSE Payload.village

\* the present ones of house number, road, locality, state and postcode, in
\* that order
PresentFields5 ==
    SelectSeq(<<Payload.house_number, Payload.road, Locality3, Payload.state,
                Payload.postcode>>, Present)

\* a payload with house number, road, city, a two-letter state code and a
\* 5-digit postcode
IsFullPayload(addr) ==
    /\ Present(addr.house_number)
    /\ Present(addr.road)
    /\ Present(addr.city)
    /\ addr.state.some /\ Len(addr.state.v) = 2
    /\ \A i \in 1..Len(addr.state.v) : IsUpper(addr.state.v[i])
    /\ addr.postcode.some /\ Len(addr.postcode.v) = 5 /\ AllDigits(addr.postcode.v)

\* C15: as stated, for every payload with a house number, a road, a city, a
\* two-letter state code and a 5-digit postcode, reverse_geocode_address
\* returns an address that address_is_complete classifies as complete.
C15_FullPayloadIsComplete ==
    (op.name = "reverse" /\ op.out.t = "location" /\ IsFullPayload(Payload))
    => /\ ret.raised = "none"
       /\ ret.val.value.some
       /\ address_is_complete(ret.val.value)

\* C17: reverse_geocode_address returns as value the present fields among
\* house number, road, locality (city, else town, else village), state and
\* postcode, in that order and separated by ", "; when none of them is
\* present it returns the incomplete-address error and no value, and the
\* value is never an empty string.
C17_JoinsPresentFields ==
    (op.name = "reverse" /\ op.out.t = "location")
    => /\ ret.raised = "none"
       /\ ret.val.value.some => ret.val.value.v # <<>>
       /\ IF PresentFields5 = <<>>
          THEN ret.val.error_code = "INCOMPLETE_ADDRESS" /\ ~ret.val.value.some
          ELSE /\ ret.val.error_code = "None"
               /\ ret.val.value.some
               /\ SplitOn(ret.val.value.v, <<",", " ">>)
                      = [i \in 1..Len(PresentFields5) |-> PresentFields5[i].v]

\* a payload with a city and a town, an empty house number and no
\* postcode came back as road, city and state
C17_Witness ==
    /\ op.name = "reverse"
    /\ Payload.house_number = Some(<<>>)
    /\ Present(Payload.town)
    /\ ~Payload.postcode.some
    /\ ret.val.value = Some(<<"E", "l", "m", " ", "S", "t", ",", " ", "A", "d", "a", ",", " ", "C", "A">>)

\* the street token of C18: house number and road as one token, else the
\* one that is present
StreetToken ==
    IF Present(Payload.house_number) /\ Present(Payload.road)
    THEN Some(Payload.house_number.v \o <<" ">> \o Payload.road.v)
    ELSE IF Present(Payload.house_number) THEN Payload.house_number
    ELSE Payload.road

\* the locality of C18: city, else town, else village, else hamlet
Locality4 ==
    IF Present(Payload.city) THEN Payload.city
    ELSE IF Present(Payload.town) THEN Payload.town
    ELSE IF Present(Payload.village) THEN Payload.village
    ELSE Payload.hamlet

\* the present ones of street token, locality, state and postcode
PresentFields4 ==
    SelectSeq(<<StreetToken, Locality4, Payload.state, Payload.postcode>>, Present)

\* the address text that the call being served returned
ReturnedText ==
    IF op.name = "reverse"
    THEN (IF ret.val.value.some THEN ret.val.value.v ELSE <<>>)
    ELSE ret.val

\* C18: as stated, both reverse-lookup paths build the address from the
\* street token (house number and road as one token), the locality (city,
\* else town, else village, else hamlet), the state and the postcode; a
\* payload whose only locality is a hamlet gives an address with the hamlet.
C18_OneFormatOnEveryPath ==
    (op.name \in {"reverse", "reverse_geocode"} /\ PresentFields4 # <<>>)
    => /\ ret.raised = "none"
       /\ SplitOn(ReturnedText, <<",", " ">>)
              = [i \in 1..Len(PresentFields4) |-> PresentFields4[i].v]
       /\ (Locality4 = Payload.hamlet /\ Present(Payload.hamlet))
          => Contains(ReturnedText, Payload.hamlet.v)

(***************************************************************************)
(* Properties of a run of ensure_complete_addresses.py                     *)
(***************************************************************************)

\* the address of a visited row comes from a payload with house number,
\* road, city, state code and postcode that the provider returned for the
\* row's coordinates
RepairedFromFullPayload(e) ==
    /\ HasCoordinates(e)
    /\ \E f \in Visited : /\ f.key = e.key
                          /\ f.rev_called
                          /\ f.rev_out.t = "location"
                          /\ IsFullPayload(f.rev_out.addr)

\* C16: as stated, for the process_dataframe of ensure_complete_addresses.py:
\* when the reverse provider returns a payload with house number, road,
\* city, two-letter state code and 5-digit postcode for every targeted row,
\* corrected_count equals the targeted count and the final address of every
\* targeted row is complete by the script's own address_is_complete.
C16_BatchRepair ==
    ( /\ bpc \in {"write", "done"}
      /\ Visited # {}
      /\ \A e \in Visited : RepairedFromFullPayload(e) )
    => /\ summary.corrected_count = summary.target_count
       /\ \A e \in Visited :
              ensure_address_is_complete(Some(StrOf(df[e.idx].address)))

(***************************************************************************)
(* Properties of the classifier.  The conditions of C19 are read on the    *)
(* value without its surrounding blanks; its state/postal token is a       *)
(* two-letter code that is a word of its own, then blanks with at most one *)
(* comma among them and a blank last, then five digits that end a word.    *)
(***************************************************************************)

\* the value being classified, without its surrounding blanks
Trimmed == Strip(op.q.v)

\* the text between a state code and a postal code
IsTokenGap(g) ==
    \/ /\ g # <<>>
       /\ \A k \in 1..Len(g) : g[k] = " "
    \/ \E k \in 1..(Len(g) - 1) :
           /\ g[k] = ","
           /\ \A n \in 1..Len(g) : n # k => g[n] = " "

\* a state/postal token of a starts at i and its postal code at z
TokenFromTo(a, i, z) ==
    /\ i >= 1 /\ i + 2 < z /\ z + 4 <= Len(a)
    /\ IsUpper(a[i]) /\ IsUpper(a[i + 1])
    /\ i > 1 => ~(IsAlpha(a[i - 1]) \/ IsDigit(a[i - 1]))
    /\ IsTokenGap(SubSeq(a, i + 2, z - 1))
    /\ \A k \in z..(z + 4) : IsDigit(a[k])
    /\ z + 5 <= Len(a) => ~(IsAlpha(a[z + 5]) \/ IsDigit(a[z + 5]))

\* where the state/postal tokens of a start
TokenStarts(a) == {i \in 1..Len(a) : \E z \in 1..Len(a) : TokenFromTo(a, i, z)}

\* condition (2): the text before the first comma starts with a digit and
\* contains a letter
StreetCondition(a) ==
    \E c \in 1..(Len(a) + 1) :
        /\ c <= Len(a) => a[c] = ","
        /\ \A k \in 1..(c - 1) : a[k] # ","
        /\ c > 1
        /\ IsDigit(a[1])
        /\ \E k \in 1..(c - 1) : IsAlpha(a[k])

\* condition (3): the text before position m, without its trailing commas
\* and blanks and cut at its last comma, is not empty and contains a letter
CityCondition(a, m) ==
    \E e \in 1..(m - 1) :
        /\ a[e] \notin {",", " "}
        /\ \A k \in (e + 1)..(m - 1) : a[k] \in {",", " "}
        /\ \E k \in 1..e : IsAlpha(a[k]) /\ \A n \in k..e : a[n] # ","

\* the conditions of C19 on a text
MeetsConditions(a) ==
    /\ a # <<>>
    /\ TokenStarts(a) # {}
    /\ StreetCondition(a)
    /\ CityCondition(a, MinOf(TokenStarts(a)))

\* C19: address_is_complete returns True exactly for the strings that are
\* not blank and meet the three conditions (a state/postal token; a text
\* before the first comma that starts with a digit and contains a letter;
\* a text before the token that, cut at its last comma, contains a letter),
\* and False without raising for every other value, None and the empty
\* string included; the four listed addresses are classified as listed.
C19_CompleteIffConditions ==
    op.name = "address_is_complete"
    => /\ ret.raised = "none"
       /\ ret.val \in BOOLEAN
       /\ ret.val <=> (op.q.some /\ MeetsConditions(Trimmed))
       /\ op.q \in { Some(<<"1", "2", "3", " ", "M", "a", "i", "n", " ", "S", "t", ",", " ", "S", "p", "r", "i", "n", "g", "f", "i", "e", "l", "d", ",", " ", "C", "A", " ", "9", "0", "2", "1", "0">>),
                     Some(<<"1", "2", "3", " ", "M", "a", "i", "n", " ", "S", "t", ",", " ", "S", "p", "r", "i", "n", "g", "f", "i", "e", "l", "d", ",", " ", "C", "A", ",", " ", "9", "0", "2", "1", "0">>) } => ret.val
       /\ op.q \in { Some(<<"M", "a", "i", "n", " ", "S", "t", ",", " ", "S", "p", "r", "i", "n", "g", "f", "i", "e", "l", "d", ",", " ", "C", "A", " ", "9", "0", "2", "1", "0">>),
                     Some(<<"1", "2", "3", " ", "M", "a", "i", "n", " ", "S", "t", ",", " ", "S", "p", "r", "i", "n", "g", "f", "i", "e", "l", "d", ",", " ", "C", "A">>),
                     Some(<<>>), None } => ~ret.val

\* the address with a comma before the ZIP was classified complete
C19_Witness ==
    /\ op.name = "address_is_complete"
    /\ op.q = Some(<<"1", "2", "3", " ", "M", "a", "i", "n", " ", "S", "t", ",", " ", "S", "p", "r", "i", "n", "g", "f", "i", "e", "l", "d", ",", " ", "C", "A", ",", " ", "9", "0", "2", "1", "0">>)
    /\ ret.val = TRUE

\* a has a house number and a street before its first comma and a
\* state/postal token, with no letter between that comma and the token
NoCityBetween(a) ==
    /\ TokenStarts(a) # {}
    /\ StreetCondition(a)
    /\ \E c \in 1..(MinOf(TokenStarts(a)) - 1) :
           /\ a[c] = ","
           /\ \A k \in (c + 1)..(MinOf(TokenStarts(a)) - 1) : ~IsAlpha(a[k])

\* C20: as stated, address_is_complete returns False for every address
\* that has a house number, a street and a state/ZIP token but no city text
\* between the street part and the token, such as "123 Main St, CA 90210".
C20_NoCityIsIncomplete ==
    (op.name = "address_is_complete" /\ op.q.some /\ NoCityBetween(Trimmed))
    => ret.val = FALSE

(***************************************************************************)
(* Properties of a batch: targeting, shape and the returned counts         *)
(***************************************************************************)

\* the row matches the policy the run was started with
MatchesPolicy(row) ==
    \/ opts.only_missing /\ Contains(StrOf(row.address), MissingPattern)
    \/ opts.only_incomplete /\ ~address_is_complete(Some(StrOf(row.address)))
    \/ /\ ~opts.only_missing
       /\ ~opts.only_incomplete
       /\ \/ Contains(StrOf(row.address), MissingPattern)
          \/ ~address_is_complete(Some(StrOf(row.address)))

\* the indexes of the rows of the input that match the policy
PolicyRows == {i \in 1..Len(frame) : MatchesPolicy(frame[i])}

\* the rows the loop has visited or is still to visit
TargetedRows ==
    {targets[j] : j \in 1..Len(targets)} \cup {e.idx : e \in Visited}

\* C21: the rows the loop visits are the rows that match the policy of the
\* run (only_missing: the address contains the missing pattern;
\* only_incomplete: the address is not complete; neither: one of the two);
\* a row that does not match is never visited, no provider is invoked for
\* it, and its address is the same in the data, and in the output written,
\* as in the input.
C21_TargetingPolicy ==
    /\ bpc \in {"rows", "raised", "write", "done"} => TargetedRows = PolicyRows
    /\ \A i \in 1..Len(df) :
           ~MatchesPolicy(frame[i])
           => /\ df[i].address = frame[i].address
              /\ \A e \in Visited : e.idx # i
              /\ \A j \in 1..Len(targets) : targets[j] # i
              /\ bpc = "done" => disk.rows[i] = frame[i].address

\* a finished run has left a row alone that does not match its policy and
\* has invoked the reverse provider for a row that matches
C21_Witness ==
    /\ bpc = "done"
    /\ \E i \in 1..Len(df) : ~MatchesPolicy(frame[i])
    /\ \E e \in Visited : e.rev_called /\ df[e.idx].address # frame[e.idx].address

\* process_dataframe has returned
Returned_process_dataframe == bpc \in {"write", "done"}

\* the row of the data but for its address
SameButAddress(i) == [df[i] EXCEPT !.address = frame[i].address] = frame[i]

\* C22: as stated, when process_dataframe has returned, the data has the
\* columns and the rows of the input, also for an input whose coordinates
\* are derived from the geometry, and nothing but the values of the address
\* column differs.
C22_ShapePreserved ==
    Returned_process_dataframe
    => /\ columns = InputColumns(frame, opts.lat_lon_columns)
       /\ Len(df) = Len(frame)
       /\ \A i \in 1..Len(df) : SameButAddress(i)

\* the rows matching the policy whose address in the data is complete
CompletedRows ==
    {i \in PolicyRows : address_is_complete(Some(StrOf(df[i].address)))}

\* C23: process_dataframe returns the number of rows that match the policy
\* in the input and the number of those rows whose final address is
\* complete; 0 <= completed <= targeted; with no row targeted it returns
\* (0, 0), has invoked no provider and has not changed the data.
C23_ReturnedCounts ==
    Returned_process_dataframe
    => /\ summary.target_count = Cardinality(PolicyRows)
       /\ summary.corrected_count = Cardinality(CompletedRows)
       /\ 0 <= summary.corrected_count
       /\ summary.corrected_count <= summary.target_count
       /\ summary.target_count = 0
          => /\ summary.corrected_count = 0
             /\ plog = <<>>
             /\ Visited = {}
             /\ df = frame
             /\ addr_cache = EmptyDict

\* a run has returned with some, not all, of its targeted rows complete
C23_Witness ==
    /\ bpc = "done"
    /\ 0 < summary.corrected_count
    /\ summary.corrected_count < summary.target_count

(***************************************************************************)
(* Properties of a run in directory mode                                   *)
(***************************************************************************)

\* the file lacks what process_dataframe requires of it: the address
\* column, or the coordinate columns and a geometry to derive them from
FailsPrecondition(f) ==
    \/ ~f.address_column
    \/ ~f.lat_lon_columns /\ "geometry" \notin InputColumns(f.rows, FALSE)

\* the files whose output has been written
WrittenFiles == {outputs[j].file : j \in 1..Len(outputs)}

\* main has ended, with the summary or with SystemExit
MainEnded == fpos > 0 /\ bpc \in {"finished", "exit"}

\* C24: as stated, when a run in directory mode has ended, every file that
\* does not fail a precondition has been processed and written, whatever
\* the other files of the directory are; a file that fails one has not.
C24_FailureIsPerFile ==
    MainEnded
    => \A i \in 1..Len(files) :
           /\ ~FailsPrecondition(files[i]) => i \in WrittenFiles
           /\ ~files[i].address_column => i \notin WrittenFiles

(***************************************************************************)
(* Properties of the requests sent to the geocoding service                *)
(***************************************************************************)

\* C25: as stated, any two consecutive requests of a run, reverse or
\* forward, are sent at least the minimum interval (1.1 s) apart, and a
\* request is sent only after the one before it has been answered.
C25_MinimumInterval ==
    \A j \in 2..Len(requests) :
        /\ requests[j].at - requests[j - 1].at >= MinDelay
        /\ requests[j].at >= requests[j - 1].until

\* consecutive requests through the same limiter are the minimum interval
\* apart
SameLimiterInterval ==
    \A j \in 2..Len(requests) :
        requests[j].limiter = requests[j - 1].limiter
        => requests[j].at - requests[j - 1].at >= MinDelay

(***************************************************************************)
(* Properties of the query of the forward search (build_search_query)      *)
(***************************************************************************)

\* the row the query is built for
QueryRow == frame[1]

\* the cell holds a text that is not blank
PresentText(cell) == cell.t = "str" /\ Strip(cell.s) # <<>>

\* the existing address, unless it is a placeholder
ExistingCell ==
    IF PresentText(QueryRow.address)
       /\ ~StartsWith(Lower(Strip(QueryRow.address.s)), <<"n", "o", " ", "a", "d", "d", "r", "e", "s", "s">>)
    THEN QueryRow.address
    ELSE CellAbsent

\* the present parts of the row in the fixed order: name, existing address,
\* city, town, state, postcode (also named zip or zip_code), county
PresentParts ==
    SelectSeq(<<QueryRow.name, ExistingCell, QueryRow.city, QueryRow.town,
                QueryRow.state, QueryRow.postcode, QueryRow.zip, QueryRow.zip_code,
                QueryRow.county>>, PresentText)

\* the texts of the parts up to the n-th one
PartTexts(n) == [i \in 1..n |-> Strip(PresentParts[i].s)]

\* the sequence without the elements that repeat an earlier one
RECURSIVE RemoveRepeats(_)
RemoveRepeats(seq) ==
    IF Len(seq) = 0 THEN <<>>
    ELSE IF \E i \in 1..(Len(seq) - 1) : seq[i] = seq[Len(seq)]
    THEN RemoveRepeats(SubSeq(seq, 1, Len(seq) - 1))
    ELSE Append(RemoveRepeats(SubSeq(seq, 1, Len(seq) - 1)), seq[Len(seq)])

\* no element of the sequence repeats an earlier one
NoRepeats(seq) == \A i, j \in 1..Len(seq) : seq[i] = seq[j] => i = j

\* C26: as stated, the query is the row's present parts in the fixed order
\* (name, the existing address unless it starts with "no address", city,
\* town, state, postcode, county), joined by ", " without a repeated part;
\* no token between the commas of the query occurs twice; and the query is
\* None exactly when no part is present.
C26_SearchQuery ==
    op.name = "build_search_query"
    => /\ ret.val.some <=> Len(PresentParts) > 0
       /\ ret.val.some
          => /\ ret.val.v = Join(RemoveRepeats(PartTexts(Len(PresentParts))), <<",", " ">>)
             /\ NoRepeats(SplitOn(ret.val.v, <<",", " ">>))

(***************************************************************************)
(* Properties of the cache across calls and runs                           *)
(***************************************************************************)

\* the call names a coordinate: both parts are there and are numbers
HasKey(call) ==
    /\ call.lat.t # "none"
    /\ call.lon.t # "none"
    /\ CacheKey(call.lat, call.lon).exc = "none"

\* the key of the call
KeyOfCall(call) == CacheKey(call.lat, call.lon).key

\* a result is stored for the key: in the cache of the running process, or
\* in the cache file that a run loads
StoredFor(key) ==
    \/ key \in DOMAIN cache.data
    \/ LoadFile(file).raised = "none" /\ key \in DOMAIN LoadFile(file).data

\* C27: a live call of reverse_geocode_address_cached stores what it
\* returns, an error result as well as an address; a call for a coordinate
\* that has a stored result, in the cache of this run or in the cache file
\* loaded by it, does not invoke the provider and returns the stored result,
\* whatever the provider would answer now; and no step removes or changes
\* an entry of the cache file.
C27_ErrorsAreCached ==
    [][ /\ (IsCachedLookupStep /\ HasKey(op'))
           => /\ StoredFor(KeyOfCall(op'))
                 => /\ ~op'.called
                    /\ calls' = calls
                    /\ KeyOfCall(op') \in DOMAIN cache.data
                    /\ ret' = Returned(cache.data[KeyOfCall(op')])
              /\ (op'.called /\ ret'.raised = "none")
                 => /\ KeyOfCall(op') \in DOMAIN cache'.data
                    /\ cache'.data[KeyOfCall(op')] = ret'.val
                    /\ pc' = "save_open"
        /\ LoadFile(file).raised = "none"
           => \A k \in DOMAIN LoadFile(file).data :
                  /\ LoadFile(file').raised = "none"
                  /\ k \in DOMAIN LoadFile(file').data
                  /\ LoadFile(file').data[k] = LoadFile(file).data[k] ]_vars

\* an unexpected-error result, which no cache file of the start holds, has
\* been served from the cache without a provider call
C27_Witness ==
    /\ pc = "idle"
    /\ op.name = "reverse_cached"
    /\ ~op.called
    /\ calls = 1
    /\ ret.raised = "none"
    /\ ret.val.error_code = "UNEXPECTED_ERROR"
    /\ LoadFile(file).raised = "none"
    /\ KeyOfCall(op) \in DOMAIN LoadFile(file).data

(***************************************************************************)
(* Properties of the forward attempt                                       *)
(***************************************************************************)

\* the reverse attempt of the round gave no value or an incomplete one
ReverseInsufficient(e) ==
    ~e.reverse_suggestion.some \/ ~address_is_complete(e.reverse_suggestion)

\* C28: as stated, with the forward search enabled, the forward attempt is
\* made for every visited row whose reverse result is absent or not a
\* complete address, a partial address such as "Rye, CA" included: the
\* query is built and, when there is one, the forward provider is invoked.
C28_ForwardWheneverIncomplete ==
    \A e \in Visited :
        (opts.enable_forward_search /\ ReverseInsufficient(e))
        => /\ e.query = build_search_query(df[e.idx], e.existing)
           /\ e.query.some => e.fwd_called


(***************************************************************************)
(* The two classifiers compared                                            *)
(***************************************************************************)

\* C29: as stated, every value that address_is_complete of
\* ensure_complete_addresses.py accepts is accepted by address_is_complete
\* of address_utils.py too, whichever of the two has been applied.
C29_StrictImpliesPermissive ==
    op.name \in {"address_is_complete", "ensure_address_is_complete"}
    => (ensure_address_is_complete(op.q) => address_is_complete(op.q))


(***************************************************************************)
(* download_pbf (firefighter_finder/osm.py).  destination and temp_path    *)
(* hold what the two files contain: "absent", "old" (the destination of    *)
(* an earlier run), "stale" (a temporary file left by an earlier run),     *)
(* "partial" (opened for writing, not all chunks written), "full" (all     *)
(* chunks written), "new" (the destination after os.replace).  fetches     *)
(* counts the calls of urlopen, error is the exception last raised by the  *)
(* try block.  Every step ends: urlopen and read carry the timeout, the    *)
(* sleep is finite.                                                        *)
(***************************************************************************)

\* the largest max_retries drawn (the default of download_pbf)
MaxRetries == 3

\* HTTP status codes of the failures drawn, with the edges of the ranges
HttpCodes == {403, 404, 408, 429, 499, 500, 503, 599, 600}

NoError == [type |-> "none", code |-> 0]

HTTPError(code) == [type |-> "HTTPError", code |-> code]

URLError == [type |-> "URLError", code |-> 0]

TimeoutErr == [type |-> "TimeoutError", code |-> 0]

\* an exception that neither except clause names (a reset connection, a
\* full disk)
OSErr == [type |-> "OSError", code |-> 0]

is_retryable_http_error_Always(code) == TRUE

is_retryable_http_error(code) ==
    code \in {408, 429} \/ (500 <= code /\ code <= 599)

\* the two except clauses: the state of the call after the try block raised
\* exc with the temporary file holding temp
Handled(exc, temp) ==
    IF exc.type = "HTTPError"
    THEN IF attempts + 1 > dopts.max_retries \/ ~is_retryable_http_error(exc.code)
         THEN [dpc |-> "raised", attempts |-> attempts + 1, temp_path |-> "absent"]
         ELSE [dpc |-> "sleep", attempts |-> attempts + 1, temp_path |-> temp]
    ELSE IF exc.type \in {"URLError", "TimeoutError"}
    THEN IF attempts + 1 > dopts.max_retries
         THEN [dpc |-> "raised", attempts |-> attempts + 1, temp_path |-> "absent"]
         ELSE [dpc |-> "sleep", attempts |-> attempts + 1, temp_path |-> temp]
    ELSE [dpc |-> "raised", attempts |-> attempts, temp_path |-> temp]

DownloadInit ==
    /\ file = Absent
    /\ tmp = Absent
    /\ cache = NoCache
    /\ pc = "off"
    /\ calls = 0
    /\ op = Call("none", RawNone, RawNone, None, NotCalled, FALSE)
    /\ ret = NoRet
    /\ NoBatch
    /\ NoDirectory
    /\ NoRequests
    /\ destination \in {"absent", "old"}
    /\ temp_path \in {"absent", "stale"}
    /\ attempts = 0
    /\ dpc = "call"
    /\ fetches = 0
    /\ dopts \in [overwrite : BOOLEAN, max_retries : 0..MaxRetries]
    /\ error = NoError

\* the early return, or the entry of the loop
DownloadStart ==
    /\ dpc = "call"
    /\ dpc' = IF destination # "absent" /\ ~dopts.overwrite THEN "returned" ELSE "attempt"
    /\ UNCHANGED <<destination, temp_path, attempts, fetches, dopts, error>>
    /\ UNCHANGED <<file, tmp, cache, pc, calls, op, ret>>
    /\ UNCHANGED batchVars
    /\ UNCHANGED <<dirVars, clockVars>>

\* urlopen(url, timeout) and temp_path.open("wb"): the response arrives and
\* the temporary file is opened (exc = NoError), or urlopen raises
Open(exc) ==
    /\ dpc = "attempt"
    /\ fetches' = fetches + 1
    /\ IF exc = NoError
       THEN /\ dpc' = "reading"
            /\ temp_path' = "partial"
            /\ UNCHANGED <<attempts, error>>
       ELSE /\ error' = exc
            /\ \E h \in {Handled(exc, temp_path)} :
                /\ dpc' = h.dpc
                /\ attempts' = h.attempts
                /\ temp_path' = h.temp_path
    /\ UNCHANGED <<destination, dopts>>
    /\ UNCHANGED <<file, tmp, cache, pc, calls, op, ret>>
    /\ UNCHANGED batchVars
    /\ UNCHANGED <<dirVars, clockVars>>

\* the chunk loop: every chunk is written (exc = NoError), or a read raises
\* with some chunks written
ReadChunks(exc) ==
    /\ dpc = "reading"
    /\ IF exc = NoError
       THEN /\ dpc' = "replace"
            /\ temp_path' = "full"
            /\ UNCHANGED <<attempts, error>>
       ELSE /\ error' = exc
            /\ \E h \in {Handled(exc, "partial")} :
                /\ dpc' = h.dpc
                /\ attempts' = h.attempts
                /\ temp_path' = h.temp_path
    /\ UNCHANGED <<destination, fetches, dopts>>
    /\ UNCHANGED <<file, tmp, cache, pc, calls, op, ret>>
    /\ UNCHANGED batchVars
    /\ UNCHANGED <<dirVars, clockVars>>

\* os.replace(temp_path, destination), break, return destination
Replace ==
    /\ dpc = "replace"
    /\ destination' = "new"
    /\ temp_path' = "absent"
    /\ dpc' = "returned"
    /\ UNCHANGED <<attempts, fetches, dopts, error>>
    /\ UNCHANGED <<file, tmp, cache, pc, calls, op, ret>>
    /\ UNCHANGED batchVars
    /\ UNCHANGED <<dirVars, clockVars>>

\* time.sleep(backoff_seconds * 2 ** (attempts - 1)) returns
Sleep ==
    /\ dpc = "sleep"
    /\ dpc' = "attempt"
    /\ UNCHANGED <<destination, temp_path, attempts, fetches, dopts, error>>
    /\ UNCHANGED <<file, tmp, cache, pc, calls, op, ret>>
    /\ UNCHANGED batchVars
    /\ UNCHANGED <<dirVars, clockVars>>

\* what urlopen raises
OpenErrors == {HTTPError(c) : c \in HttpCodes} \cup {URLError, TimeoutErr, OSErr}

\* what a read or a write of a chunk raises
ReadErrors == {TimeoutErr, OSErr}

DownloadNext ==
    \/ DownloadStart
    \/ \E exc \in {NoError} \cup OpenErrors : Open(exc)
    \/ \E exc \in {NoError} \cup ReadErrors : ReadChunks(exc)
    \/ Replace
    \/ Sleep

DownloadSpec == DownloadInit /\ [][DownloadNext]_vars

\* every step of a call ends: the requests time out, the sleep is finite
DownloadFairSpec == DownloadSpec /\ WF_vars(DownloadNext)

(***************************************************************************)
(* Properties of download_pbf                                              *)
(***************************************************************************)

DownloadEnded == dpc \in {"returned", "raised"}

\* the failures the loop retries
Retryable(exc) ==
    \/ exc.type = "HTTPError" /\ (exc.code \in {408, 429} \/ (500 <= exc.code /\ exc.code <= 599))
    \/ exc.type \in {"URLError", "TimeoutError"}

\* an existing destination without overwrite is returned without a request
NoRequestWhenPresent ==
    (destination = "old" /\ ~dopts.overwrite) => (fetches = 0 /\ dpc \in {"call", "returned"})

AttemptsBounded == fetches <= dopts.max_retries + 1

\* the call goes on to another attempt only after a retryable failure that
\* is not the last one allowed
RetriesOnlyRetryable ==
    dpc = "sleep" => (Retryable(error) /\ attempts <= dopts.max_retries)

\* a call that raised on one of the failures the loop handles has removed
\* the temporary file; no call that raised has touched the destination
RaisedLeavesNothing ==
    dpc = "raised"
    => /\ destination # "new"
       /\ error.type \in {"HTTPError", "URLError", "TimeoutError"} => temp_path = "absent"

\* the destination changes only by the replace of a complete temporary file
OnlyReplaceWrites ==
    destination' # destination
    => (temp_path = "full" /\ destination' = "new" /\ temp_path' = "absent")

\* C30: a call of download_pbf ends; with the destination present and no
\* overwrite it sends no request; otherwise it sends at most
\* max_retries + 1 requests, goes on only after a retryable failure, and
\* when it raises the temporary file is removed and the destination is as
\* it was; the destination is written only by replacing it with a complete
\* temporary file.
C30_DownloadTerminates ==
    /\ [](NoRequestWhenPresent /\ AttemptsBounded /\ RetriesOnlyRetryable /\ RaisedLeavesNothing)
    /\ [][OnlyReplaceWrites]_vars
    /\ <>DownloadEnded

\* a call with an old destination and overwrite has failed max_retries + 1
\* times, two retries among them, and raised: the old destination is
\* there and the temporary file is not
C30_Witness ==
    /\ dpc = "raised"
    /\ dopts.overwrite
    /\ dopts.max_retries = 2
    /\ fetches = 3
    /\ attempts = 3
    /\ destination = "old"
    /\ temp_path = "absent"
    /\ error = TimeoutErr

=============================================================================
